---- MODULE Spec2Model ----
(***************************************************************************)
(* A model of fodge, the flavour-ordered diagram generator: the            *)
(* permutation class and the group generators built on it                  *)
(* (src/include/Permutation.hpp, src/src/Permutation.cpp,                  *)
(* src/src/Generator.cpp), the cyclic / compound representations of        *)
(* diagrams (src/cycrep.h, src/unnamed/part_001, src/unnamed/part_009),    *)
(* propagators and labellings (src/src/Propagator.cpp,                     *)
(* src/src/Labelling.cpp) and the diagram trees with their generation      *)
(* (src/src/DiagramNode.cpp, src/src/Diagram.cpp), the splitting of        *)
(* polygons (src/old/src/diagram.c), the sort (src/unnamed/part_012) and   *)
(* the generic cycle (src/src/cycle.c).                                    *)
(*                                                                         *)
(* Permutations and all C arrays are functions on 0..n-1, as in the        *)
(* source; std::vector is a sequence.  Each family of operations has a     *)
(* specification of its own (SpecGen, SpecPerm, SpecCyc, SpecCmp, SpecSym, *)
(* SpecRep, SpecSrt, SpecVfs, SpecProp, SpecBits, SpecGenerate,            *)
(* SpecDiagram, SpecWhence, SpecFsp with SpecFspLive, SpecCycle); the      *)
(* variables of the other families rest at their idle values there.        *)
(***************************************************************************)
EXTENDS Integers, Sequences, FiniteSets, TLC

VARIABLES
    gen,        \* the generator being traversed: [kind, g], g the object's fields
    genR,       \* the trace-length list a ZR_Generator was built from (<<>> otherwise)
    visited,    \* the permutations observed in the current traversal
    nvisited,   \* how many observations were made in the current traversal
    nincr,      \* the increments made in the current traversal
    passes,     \* the traversals completed (increments that set done)
    pperm,      \* the Permutation an operation is applied to
    ppow,       \* the exponent handed to operator^ (0: not applied yet)
    pres,       \* the Permutation operator^ returned
    part,       \* the cycrep being normalised
    partStages, \* the levels normalise_cycrep was applied at, in order
    partPrev,   \* offset and period of part before the latest normalise_cycrep
    cmpA,       \* the cycreps handed to compare_cycrep ...
    cmpB,
    cmpC,
    cmpLevel,   \* ... the level (0: not compared yet)
    cmpRes,     \* ... and what the calls on the pairs returned
    conA,       \* the compreps (addresses) handed to compare_comprep ...
    conB,
    conRes,     \* ... and what the calls returned
    symCrep,    \* the comprep handed to get_symmetry
    symRes,     \* what get_symmetry returned (0: not called yet)
    diagr,      \* the diagram handed to represent_diagram
    repCrep,    \* the comprep represent_diagram returned
    repSym,     \* what get_symmetry returned for repCrep (0: not called yet)
    srtCrep,    \* the comprep whose parts represent_diagram collects and sorts
    srtSorted,  \* whether info_sort has been applied to srtCrep
    srtOob,     \* whether a comparison made by info_sort read out of bounds
    vfsOrder,   \* the order handed to valid_flav_splits and valid_vertices
    vfsLegs,    \* the number of legs handed to them
    vfsSplits,  \* what valid_flav_splits returned (empty: not called yet)
    vfsVerts,   \* what valid_vertices returned (empty: not called yet)
    prop,       \* the Propagator being normalised
    propOnce,   \* the Propagator after its constructor
    propCalls,  \* number of normalise() calls made
    pbMap,      \* the map of the Permutation applied to bits
    pbBits,     \* permute_bits: the argument bits
    pbOffset,   \* permute_bits: the argument offset
    pbBlock,    \* permute_bits: the argument block_len
    pbRes,      \* permute_bits: the return value, -1 before the call
    pbParity,   \* parity(): the return value, -1 before the call
    dgOrder,    \* generate: the argument order
    dgLegs,     \* generate: the argument n_legs
    dgSinglets, \* generate: the argument singlets
    dgTraceless,\* generate: the argument traceless_generators
    dgCalls,    \* generate: the recursive calls that have returned, with diagrs and the list returned
    dgDiagrs,   \* generate: diagrs of the outermost call after std::unique
    dgReturned, \* generate: the list the outermost call returns
    dgDone,     \* generate: the outermost call has returned
    dDiagram,   \* a Diagram built by the constructor and by extend
    dSteps,     \* the number of extend steps that built dDiagram
    whList,     \* info_sort with whence: the list handed in
    whSorted,   \* info_sort with whence: the list after the call, <<>> before
    whWhence,   \* info_sort with whence: the array whence after the call
    whRank,     \* info_sort with whence: the array rank after the call
    fspDiagr,   \* represent_diagram step by step: the diagram
    fspStarted, \* represent_diagram step by step: it has been called
    fspPIdx,    \* represent_diagram step by step: p_idx of its loop
    fspPolyReps,\* represent_diagram step by step: the polygons with crep->poly_reps set
    fspStack,   \* represent_diagram step by step: the calls of represent_part and represent_fsp_con in progress
    fspDepth,   \* represent_diagram step by step: the deepest nesting of represent_part so far
    fspNulls,   \* represent_diagram step by step: the NULL placeholders stored so far
    fspDone,    \* represent_diagram step by step: it has returned
    cycle,      \* generic cycle: the cycle
    cycleRes,   \* generic cycle: the last call and what it returned
    cycleOob    \* generic cycle: the last call touched a position outside the array

genvars == <<gen, genR, visited, nvisited, nincr, passes>>
permvars == <<pperm, ppow, pres>>
cycvars == <<part, partStages, partPrev>>
cmpvars == <<cmpA, cmpB, cmpC, cmpLevel, cmpRes, conA, conB, conRes>>
symvars == <<symCrep, symRes>>
repvars == <<diagr, repCrep, repSym>>
srtvars == <<srtCrep, srtSorted, srtOob>>

vfsvars == <<vfsOrder, vfsLegs, vfsSplits, vfsVerts>>
propvars == <<prop, propOnce, propCalls>>
bitsvars == <<pbMap, pbBits, pbOffset, pbBlock, pbRes, pbParity>>
dgvars == <<dgOrder, dgLegs, dgSinglets, dgTraceless, dgCalls, dgDiagrs, dgReturned, dgDone>>
diagvars == <<dDiagram, dSteps>>
whvars == <<whList, whSorted, whWhence, whRank>>
fspvars == <<fspDiagr, fspStarted, fspPIdx, fspPolyReps, fspStack, fspDepth, fspNulls, fspDone>>
cyclvars == <<cycle, cycleRes, cycleOob>>
\* the state of the operations specified further below
othervars == <<repvars, srtvars, vfsvars, propvars, bitsvars, dgvars, diagvars, whvars, fspvars, cyclvars>>

vars == <<gen, genR, visited, nvisited, nincr, passes, pperm, ppow, pres,
          part, partStages, partPrev,
          cmpA, cmpB, cmpC, cmpLevel, cmpRes, conA, conB, conRes,
          symCrep, symRes, diagr, repCrep, repSym,
          srtCrep, srtSorted, srtOob,
          vfsOrder, vfsLegs, vfsSplits, vfsVerts,
          prop, propOnce, propCalls,
          pbMap, pbBits, pbOffset, pbBlock, pbRes, pbParity,
          dgOrder, dgLegs, dgSinglets, dgTraceless, dgCalls, dgDiagrs, dgReturned, dgDone,
          dDiagram, dSteps,
          whList, whSorted, whWhence, whRank,
          fspDiagr, fspStarted, fspPIdx, fspPolyReps, fspStack, fspDepth, fspNulls, fspDone,
          cycle, cycleRes, cycleOob>>

(***************************************************************************)
(* Bounds.                                                                 *)
(***************************************************************************)
MaxGenSize == 4     \* largest n of a Zn_Generator / Sn_Generator
MaxTraceSum == 5    \* largest sum of the trace lengths R of a ZR_Generator
MaxPasses == 2      \* traversals a generator is taken through
MaxPermSize == 4    \* largest size of a Permutation handed to operator^
MaxCycLen == 4      \* largest length of a cycrep handed to normalise_cycrep
MaxCmpLen == 2      \* largest length of a cycrep handed to compare_cycrep
MaxSymLen == 2      \* largest length of a part of a comprep handed to get_symmetry
MaxSymParts == 3    \* largest number of parts of such a comprep
MaxContactGons == 4 \* largest number of legs of a contact diagram
MaxCutGons == 2     \* largest number of legs _cut_edge adds with a polygon
MaxRepOrder == 1    \* largest order of a polygon
MaxRepPolys == 2    \* largest number of polygons of a diagram
MaxSrtParts == 3    \* largest number of parts handed to info_sort
MaxVfsOrder == 10   \* largest order handed to valid_flav_splits
MaxVfsLegs == 12    \* largest number of legs handed to valid_flav_splits
MaxMomenta == 4        \* largest n_mom of a Propagator
MaxNormalise == 3      \* normalise() calls made on one Propagator
MaxBitsPerm == 3       \* largest Permutation applied to bits
MaxBitsOffset == 1     \* largest offset passed to permute_bits
MaxBlockLen == 2       \* largest block_len passed to permute_bits
MaxBitWidth == 8       \* most bits of a number passed to permute_bits
MaxGenOrder == 6       \* largest order passed to generate
MaxGenLegs == 8        \* largest n_legs passed to generate
MaxDiagOrder == 6      \* largest order of a Diagram that is built
MaxDiagLegs == 8       \* most legs of a Diagram that is built
MaxSortItems == 4      \* most items handed to info_sort with whence
MaxSortKey == 2        \* largest key of an item handed to info_sort with whence
MaxFspGons == 6        \* most legs of a contact diagram that is cut and split
MaxFspOrder == 2       \* largest order of a vertex of such a diagram
MaxFspPolys == 3       \* most polygons of such a diagram
MaxCycleLength == 3    \* largest length of a generic cycle
MaxCycleElem == 1      \* largest element of a generic cycle

(***************************************************************************)
(* Arithmetic helpers.                                                     *)
(***************************************************************************)
RECURSIVE Fact(_)
Fact(n) == IF n <= 1 THEN 1 ELSE n * Fact(n - 1)

RECURSIVE SeqSum(_)
SeqSum(s) == IF s = <<>> THEN 0 ELSE Head(s) + SeqSum(Tail(s))

RECURSIVE SeqProd(_)
SeqProd(s) == IF s = <<>> THEN 1 ELSE Head(s) * SeqProd(Tail(s))

(***************************************************************************)
(* Permutation (src/src/Permutation.cpp, src/include/Permutation.hpp).     *)
(* The map of a Permutation of size n is a function on 0..n-1.             *)
(***************************************************************************)
Size(map) == Cardinality(DOMAIN map)

\* Permutation::Permutation(size_t size): std::iota
Identity(n) == [i \in 0..(n - 1) |-> i]

AllPerms(n) == {m \in [0..(n - 1) -> 0..(n - 1)] :
                    \A i, j \in 0..(n - 1) : m[i] = m[j] => i = j}

\* Permutation::is_identity
IsIdentity(map) == \A i \in DOMAIN map : map[i] = i

\* Permutation::swap: std::swap(map[i], map[j])
Swap(map, i, j) == [map EXCEPT ![i] = map[j], ![j] = map[i]]

\* Permutation::inverse: inv[map[i]] = i for every i
Inverse(map) == [k \in DOMAIN map |-> CHOOSE i \in DOMAIN map : map[i] = k]

\* std::swap / std::swap_ranges of the blocks starting at a and b
SwapRanges(arr, a, b, block_len) ==
    [x \in DOMAIN arr |->
        IF a = b THEN arr[x]
        ELSE IF x >= a /\ x < a + block_len THEN arr[x - a + b]
        ELSE IF x >= b /\ x < b + block_len THEN arr[x - b + a]
        ELSE arr[x]]

\* the inner loop of Permutation::permute: j = map[i]; while(j < i) j = map[j];
RECURSIVE FollowCycle(_, _, _)
FollowCycle(map, i, j) == IF j < i THEN FollowCycle(map, i, map[j]) ELSE j

\* Permutation::permute(iter, offset, block_len), from index i on.  With
\* aliased = TRUE the collection is the permutation's own map (pp *= pp in
\* operator^), so every swap also changes the map the loop reads.
RECURSIVE PermuteFrom(_, _, _, _, _, _)
PermuteFrom(map, arr, offset, block_len, i, aliased) ==
    IF i >= Size(map) THEN arr
    ELSE LET j == FollowCycle(map, i, map[i])
             arr2 == SwapRanges(arr, offset + i * block_len,
                                offset + j * block_len, block_len)
         IN PermuteFrom(IF aliased THEN arr2 ELSE map, arr2,
                        offset, block_len, i + 1, aliased)

Permute(map, arr, offset, block_len) ==
    PermuteFrom(map, arr, offset, block_len, 0, FALSE)

\* operator*=(p1, p2): p2.permute(p1.map.begin()), p1 and p2 distinct objects
MulAssign(p1, p2) == Permute(p2, p1, 0, 1)

\* operator*=(pp, pp): the same call with both arguments the same object
MulAssignSelf(pp) == PermuteFrom(pp, pp, 0, 1, 0, TRUE)

\* the inner loop of Permutation::cycle_type: follows the cycle through j,
\* marking it; st = [seen, c_len]
RECURSIVE CycleWalk(_, _, _)
CycleWalk(map, j, st) ==
    IF j \in st.seen THEN st
    ELSE CycleWalk(map, map[j], [seen |-> st.seen \cup {j}, c_len |-> st.c_len + 1])

\* std::sort of a vector of cycle lengths: insertion of x into a sorted sequence
RECURSIVE SortedInsert(_, _)
SortedInsert(s, x) ==
    IF s = <<>> THEN <<x>>
    ELSE IF x <= Head(s) THEN <<x>> \o s
    ELSE <<Head(s)>> \o SortedInsert(Tail(s), x)

RECURSIVE SortAscending(_)
SortAscending(s) == IF s = <<>> THEN <<>> ELSE SortedInsert(SortAscending(Tail(s)), Head(s))

\* the outer loop of Permutation::cycle_type, from index i on
RECURSIVE CycleTypeFrom(_, _, _, _)
CycleTypeFrom(map, i, seen, decomp) ==
    IF i >= Size(map) THEN decomp
    ELSE IF i \in seen THEN CycleTypeFrom(map, i + 1, seen, decomp)
    ELSE LET w == CycleWalk(map, i, [seen |-> seen, c_len |-> 0])
         IN CycleTypeFrom(map, i + 1, w.seen, Append(decomp, w.c_len))

\* Permutation::cycle_type
CycleType(map) == SortAscending(CycleTypeFrom(map, 0, {}, <<>>))

\* the gcd lambda of Permutation::order
RECURSIVE Gcd(_, _)
Gcd(a, b) ==
    IF a = 0 THEN b
    ELSE IF b % a = 0 THEN a
    ELSE Gcd(a % (b % a), b % a)

\* std::accumulate(decomp, 1, [](a, b){ return a / gcd(a, b) * b; })
RECURSIVE LcmFold(_, _)
LcmFold(acc, decomp) ==
    IF decomp = <<>> THEN acc
    ELSE LcmFold((acc \div Gcd(acc, Head(decomp))) * Head(decomp), Tail(decomp))

\* Permutation::order
Order(map) == LcmFold(1, CycleType(map))

\* the loop of operator^: for(; pow > 0; pow >>= 1){ if(pow & 1) res *= pp; pp *= pp; }
RECURSIVE PowerLoop(_, _, _)
PowerLoop(pp, res, pow) ==
    IF pow <= 0 THEN res
    ELSE PowerLoop(MulAssignSelf(pp),
                   IF pow % 2 = 1 THEN MulAssign(res, pp) ELSE res,
                   pow \div 2)

\* operator^(p, pow)
Power(p, pow) ==
    PowerLoop(p, Identity(Size(p)),
              IF pow > Size(p) THEN pow % Order(p) ELSE pow)

(***************************************************************************)
(* Group generators (src/src/Generator.cpp).                               *)
(***************************************************************************)
\* Zn_Generator::Zn_Generator(int n)
ZnNew(n) == [n |-> n, count |-> 0, perm |-> Identity(n), done |-> FALSE]

\* for(i = 0; i < perm.size() - 1; i++) perm.swap(i, i+1);
RECURSIVE SwapChain(_, _)
SwapChain(perm, i) ==
    IF i >= Size(perm) - 1 THEN perm
    ELSE SwapChain(Swap(perm, i, i + 1), i + 1)

\* a wrap test that is off by one: done is raised one increment early
ZnWrapsEarly(count, n) == count >= n - 1

\* the wrap test of Zn_Generator::operator++, on the incremented count
ZnWraps(count, n) == count >= n

\* Zn_Generator::operator++
ZnInc(g) ==
    LET c == g.count + 1
    IN [g EXCEPT !.perm = SwapChain(g.perm, 0),
                 !.count = IF ZnWraps(c, g.n) THEN c % g.n ELSE c,
                 !.done = ZnWraps(c, g.n)]

\* Sn_Generator::Sn_Generator(int n)
SnNew(n) == [n |-> n, ctr_stack |-> [i \in 0..(n - 1) |-> 0], stack_idx |-> 0,
             perm |-> Identity(n), done |-> FALSE]

\* Heap's exchange rule with the parity test inverted
HeapPartnerInverted(ctr_stack, stack_idx) ==
    IF stack_idx % 2 = 0 THEN ctr_stack[stack_idx] ELSE 0

\* the index Heap's algorithm exchanges with stack_idx
HeapPartner(ctr_stack, stack_idx) ==
    IF stack_idx % 2 = 1 THEN ctr_stack[stack_idx] ELSE 0

\* the while loop of Sn_Generator::operator++
RECURSIVE SnLoop(_)
SnLoop(g) ==
    IF g.stack_idx >= g.n THEN [g EXCEPT !.done = TRUE]
    ELSE IF g.ctr_stack[g.stack_idx] < g.stack_idx
         THEN [g EXCEPT
                 !.perm = Swap(g.perm, HeapPartner(g.ctr_stack, g.stack_idx),
                               g.stack_idx),
                 !.ctr_stack[g.stack_idx] = g.ctr_stack[g.stack_idx] + 1,
                 !.done = FALSE]
         ELSE SnLoop([g EXCEPT !.ctr_stack[g.stack_idx] = 0,
                               !.stack_idx = g.stack_idx + 1])

\* Sn_Generator::operator++
SnInc(g) == SnLoop([g EXCEPT !.stack_idx = 0])

\* the loop body of ZR_Generator::ZR_Generator over R, from position i on;
\* st holds the constructor's locals and the two lists being built
RECURSIVE ZRBuild(_, _, _)
ZRBuild(R, i, st) ==
    IF i > Len(R)
    THEN \* add last row of same-size traces if non-trivial
         IF st.count > 1
         THEN [st EXCEPT !.swap = Append(st.swap,
                    [gen |-> SnNew(st.count), first |-> st.row_begin,
                     size |-> st.size])]
         ELSE st
    ELSE LET r == R[i]
             st1 == IF r = st.size
                    THEN [st EXCEPT !.count = st.count + 1]
                    ELSE [st EXCEPT
                            !.swap = IF st.count > 1
                                     THEN Append(st.swap,
                                            [gen |-> SnNew(st.count),
                                             first |-> st.row_begin,
                                             size |-> st.size])
                                     ELSE st.swap,
                            !.size = r,
                            !.count = 1,
                            !.row_begin = st.offs]
             st2 == IF r > 1
                    THEN [st1 EXCEPT !.cycl = Append(st1.cycl,
                            [gen |-> ZnNew(r), offs |-> st1.offs])]
                    ELSE st1
         IN ZRBuild(R, i + 1, [st2 EXCEPT !.offs = st2.offs + r])

\* ZR_Generator::ZR_Generator(const std::vector<int>& R)
ZRNew(R) ==
    LET st == ZRBuild(R, 1, [size |-> -1, count |-> 1, offs |-> 0,
                             row_begin |-> 0, cycl |-> <<>>, swap |-> <<>>])
    IN [perm |-> Identity(SeqSum(R)), done |-> FALSE,
        cycl |-> st.cycl, swap |-> st.swap]

\* the second loop of ZR_Generator::operator++ (swaps), from entry i on
RECURSIVE ZRSwapLoop(_, _)
ZRSwapLoop(g, i) ==
    IF i > Len(g.swap) THEN [g EXCEPT !.done = TRUE]
    ELSE LET s == g.swap[i]
             undone == Permute(Inverse(s.gen.perm), g.perm, s.first, s.size)
             next == SnInc(s.gen)
             g1 == [g EXCEPT !.swap[i].gen = next]
         IN IF ~next.done
            THEN [g1 EXCEPT !.perm = Permute(next.perm, undone, s.first, s.size)]
            ELSE ZRSwapLoop([g1 EXCEPT !.perm = undone], i + 1)

\* the first loop of ZR_Generator::operator++ (cyclings), from entry i on
RECURSIVE ZRCyclLoop(_, _)
ZRCyclLoop(g, i) ==
    IF i > Len(g.cycl) THEN ZRSwapLoop(g, 1)
    ELSE LET c == g.cycl[i]
             undone == Permute(Inverse(c.gen.perm), g.perm, c.offs, 1)
             next == ZnInc(c.gen)
             g1 == [g EXCEPT !.cycl[i].gen = next]
         IN IF ~next.done
            THEN [g1 EXCEPT !.perm = Permute(next.perm, undone, c.offs, 1)]
            ELSE ZRCyclLoop([g1 EXCEPT !.perm = undone], i + 1)

\* ZR_Generator::operator++
ZRInc(g) == ZRCyclLoop([g EXCEPT !.done = FALSE], 1)

(***************************************************************************)
(* Cyclic and compound representations (src/cycrep.h,                      *)
(* src/unnamed/part_001).                                                  *)
(*                                                                         *)
(* A cycrep is a record [length, n_flavidx, array, offset, period]; array  *)
(* maps 0..length-1 to gonreps [nlines, lines], lines maps 0..nlines-1 to  *)
(* linereps [len, ord, con].  A comprep pointer (con) is an address: 0 is  *)
(* NULL, a > 0 is the comprep Heap[a] = [nreps, reps, eq_reps].  A NULL    *)
(* cycrep pointer is NullCycrep.                                           *)
(***************************************************************************)
\* rep_level (src/cycrep.h)
TOP_LEVEL == 1
ORD_LEVEL == 2
FSP_LEVEL == 4
ALL_LEVELS == 7

BOOTH_NIL == -1

\* level & bit
HasLevel(level, bit) == (level \div bit) % 2 = 1

\* #define COMPARE(a,b) ((a)<(b) ? -1 : (a)>(b) ? +1 : 0)
COMPARE(a, b) == IF a < b THEN -1 ELSE IF a > b THEN 1 ELSE 0

\* a C array given by its elements in order
CArray(elems) == [i \in 0..(Len(elems) - 1) |-> elems[i + 1]]

NullCycrep == [null |-> TRUE]

Line(len, ord, con) == [len |-> len, ord |-> ord, con |-> con]

Gon(lines) == [nlines |-> Len(lines), lines |-> CArray(lines)]

\* a gon carries a flavour index unless it holds a singlet pseudo-line (len 0):
\* fill_part counts n_flavidx at EXT_LEG edges only
CarriesFlavidx(gon) == \A j \in 0..(gon.nlines - 1) : gon.lines[j].len # 0

\* the cycrep init_part and fill_part hand to normalise_cycrep: offset 0, period 0
FreshCycrep(gons) ==
    [length |-> Len(gons),
     n_flavidx |-> Cardinality({i \in 1..Len(gons) : CarriesFlavidx(gons[i])}),
     array |-> CArray(gons),
     offset |-> 0,
     period |-> 0]

Comprep(reps, eq_reps) ==
    [nreps |-> Len(reps), reps |-> CArray(reps), eq_reps |-> CArray(eq_reps)]

\* an external leg of a vertex of order ord whose flavour-split connection is con
Leg(ord, con) == Gon(<<Line(1, ord, con)>>)

\* a leg next to a propagator of distance 2
LegWithPropagator == Gon(<<Line(1, 2, 0), Line(2, 2, 0)>>)

\* a singlet leg: line 0 as for a leg, and the pseudo-line of length 0 that
\* holds the connection to the singlet (fill_part, case SINGLET)
SingletGon == Gon(<<Line(1, 2, 0), Line(0, 0, 5)>>)

\* the same side of a vertex of order 4
SingletGonOrd4 == Gon(<<Line(1, 4, 0), Line(0, 0, 5)>>)

\* parts that nothing is connected to, in normal form
LeafA == [FreshCycrep(<<Leg(2, 0)>>) EXCEPT !.period = 1]
LeafB == [FreshCycrep(<<Leg(4, 0)>>) EXCEPT !.period = 1]
PairA == [FreshCycrep(<<Leg(2, 0), Leg(2, 0)>>) EXCEPT !.period = 1]
TripleA == [FreshCycrep(<<Leg(2, 0), Leg(2, 0), Leg(2, 0)>>) EXCEPT !.period = 1]

\* the two sides of a vertex of order 1 that _split_poly has split, each as
\* the other side sees it (the master a NULL placeholder, comprep 5): three
\* legs, and two legs with a vertex of order 0 attached by a propagator
SlaveTriple ==
    [FreshCycrep(<<Leg(1, 5), Leg(1, 5), Leg(1, 5)>>) EXCEPT !.period = 1]
SlaveGrown ==
    [FreshCycrep(<<Leg(0, 0),
                   Gon(<<Line(1, 1, 5), Line(1, 0, 0)>>),
                   Gon(<<Line(1, 0, 0), Line(2, 1, 5)>>)>>) EXCEPT !.period = 3]

\* the compreps that connections point to, each with its parts sorted and
\* ranked.  1 and 2 are distinct objects of equal content; 4, 6 and 7 have
\* two parts; 5 is the connection of a singlet whose far side is a master
\* part (represent_singlet), and of a slave part to its master; 8 and 9 are
\* the connections of the two sides of a split vertex
Heap ==
    << Comprep(<<LeafA>>, <<0>>),
       Comprep(<<LeafA>>, <<0>>),
       Comprep(<<LeafB>>, <<0>>),
       Comprep(<<LeafA, LeafB>>, <<0, 1>>),
       Comprep(<<NullCycrep>>, <<0>>),
       Comprep(<<LeafB, PairA>>, <<0, 1>>),
       Comprep(<<LeafA, TripleA>>, <<0, 1>>),
       Comprep(<<SlaveTriple>>, <<0>>),
       Comprep(<<SlaveGrown>>, <<0>>) >>

Addresses == 0..Len(Heap)

\* #define ARROFFS(r,i) r->array[(i + r->offset) % r->length]
ArrOffs(r, i) == r.array[(i + r.offset) % r.length]

\* What a comparison can return: a value, and whether it read past the end
\* of an array on the way (after which the value is arbitrary).
Ret(v) == {[val |-> v, oob |-> FALSE]}
Undefined == {[val |-> v, oob |-> TRUE] : v \in {-1, 0, 1}}
Decided(outs) == {o \in outs : o.val # 0 \/ o.oob}
Undecided(outs) == \E o \in outs : o.val = 0 /\ ~o.oob

\* if(comp) return comp; and on to the rest
OrElse(outs, rest) == Decided(outs) \cup (IF Undecided(outs) THEN rest ELSE {})

\* the NULL tests of compare_cycrep, for arguments of which one is NULL
CycrepNullFirst(rep_1, rep_2) ==
    IF rep_1 = NullCycrep THEN (IF rep_2 # NullCycrep THEN -1 ELSE 0) ELSE 1

CycrepNullOrder(rep_1, rep_2) ==
    IF rep_1 = NullCycrep THEN (IF rep_2 # NullCycrep THEN 1 ELSE 0) ELSE -1

\* the NULL tests of compare_comprep, for arguments of which one is NULL
ComprepNullOrder(crep_1, crep_2) ==
    IF crep_1 = 0 THEN (IF crep_2 # 0 THEN 1 ELSE 0) ELSE -1

\* comp = COMPARE(crep_1->nreps, crep_1->nreps);
NrepsCompare(c1, c2) == COMPARE(c1.nreps, c1.nreps)

RECURSIVE CompareCycrepOut(_, _, _)
RECURSIVE CompareComprepOut(_, _)

\* the body of the loop over the lines of a gon, shared by compare_cycrep
\* (anti_doublecount = FALSE) and compare_self
LineOut(l1, l2, level, anti_doublecount) ==
    IF HasLevel(level, TOP_LEVEL) /\ l1.len # l2.len
    THEN Ret(COMPARE(l1.len, l2.len))
    ELSE IF HasLevel(level, ORD_LEVEL) /\ l1.ord # l2.ord
    THEN Ret(COMPARE(l1.ord, l2.ord))
    ELSE IF HasLevel(level, FSP_LEVEL)
    THEN IF anti_doublecount
         THEN Ret(COMPARE(l1.con, l2.con))
         ELSE CompareComprepOut(l1.con, l2.con)
    ELSE Ret(0)

\* for(j = 0; j < nlines; j++) over the lines of two gons, from line j on
RECURSIVE GonLinesOut(_, _, _, _, _)
GonLinesOut(g1, g2, level, anti_doublecount, j) ==
    IF j >= g1.nlines THEN Ret(0)
    ELSE OrElse(LineOut(g1.lines[j], g2.lines[j], level, anti_doublecount),
                GonLinesOut(g1, g2, level, anti_doublecount, j + 1))

\* two gons: nlines first, then line by line
GonOut(g1, g2, level, anti_doublecount) ==
    IF g1.nlines # g2.nlines THEN Ret(COMPARE(g1.nlines, g2.nlines))
    ELSE GonLinesOut(g1, g2, level, anti_doublecount, 0)

\* the loop of compare_cycrep over the gons, from position i on
RECURSIVE CycrepGonsOut(_, _, _, _)
CycrepGonsOut(rep_1, rep_2, level, i) ==
    IF i >= rep_1.length THEN Ret(0)
    ELSE OrElse(GonOut(ArrOffs(rep_1, i), ArrOffs(rep_2, i), level, FALSE),
                CycrepGonsOut(rep_1, rep_2, level, i + 1))

\* compare_cycrep(rep_1, rep_2, level)
CompareCycrepOut(rep_1, rep_2, level) ==
    IF rep_1 = NullCycrep \/ rep_2 = NullCycrep
    THEN Ret(CycrepNullOrder(rep_1, rep_2))
    ELSE IF rep_1.n_flavidx = 0
    THEN Ret(IF rep_2.n_flavidx # 0 THEN 1 ELSE 0)
    ELSE IF rep_2.n_flavidx = 0
    THEN Ret(-1)
    ELSE IF rep_1.n_flavidx # rep_2.n_flavidx
    THEN Ret(COMPARE(rep_1.n_flavidx, rep_2.n_flavidx))
    ELSE IF rep_1.length # rep_2.length
    THEN Ret(COMPARE(rep_1.length, rep_2.length))
    ELSE CycrepGonsOut(rep_1, rep_2, level, 0)

\* the loop of compare_comprep over eq_reps, from entry i on; crep_2's array
\* has c2.nreps entries
RECURSIVE EqRepsOut(_, _, _)
EqRepsOut(c1, c2, i) ==
    IF i >= c1.nreps THEN Ret(0)
    ELSE IF i >= c2.nreps THEN Undefined
    ELSE IF c1.eq_reps[i] # c2.eq_reps[i]
    THEN Ret(COMPARE(c1.eq_reps[i], c2.eq_reps[i]))
    ELSE EqRepsOut(c1, c2, i + 1)

\* one of the three loops of compare_comprep over reps, from entry i on
RECURSIVE SweepOut(_, _, _, _)
SweepOut(c1, c2, level, i) ==
    IF i >= c1.nreps THEN Ret(0)
    ELSE IF i >= c2.nreps THEN Undefined
    ELSE OrElse(CompareCycrepOut(c1.reps[i], c2.reps[i], level),
                SweepOut(c1, c2, level, i + 1))

\* the three sweeps in turn, from the sweep at the head of levels on
RECURSIVE SweepsOut(_, _, _)
SweepsOut(c1, c2, levels) ==
    IF levels = <<>> THEN Ret(0)
    ELSE OrElse(SweepOut(c1, c2, Head(levels), 0),
                SweepsOut(c1, c2, Tail(levels)))

\* compare_comprep past its NULL tests, on the compreps pointed to
ComprepsOut(c1, c2) ==
    IF NrepsCompare(c1, c2) # 0 THEN Ret(NrepsCompare(c1, c2))
    ELSE OrElse(EqRepsOut(c1, c2, 0),
                SweepsOut(c1, c2, <<TOP_LEVEL, ORD_LEVEL, FSP_LEVEL>>))

\* compare_comprep(crep_1, crep_2), on addresses
CompareComprepOut(crep_1, crep_2) ==
    IF crep_1 = 0 \/ crep_2 = 0
    THEN Ret(ComprepNullOrder(crep_1, crep_2))
    ELSE ComprepsOut(Heap[crep_1], Heap[crep_2])

\* the loop of compare_self over the segment, from position i on
RECURSIVE SelfGonsOut(_, _, _, _, _, _, _)
SelfGonsOut(rep, idx_1, idx_2, seg_length, level, anti_doublecount, i) ==
    IF i >= seg_length THEN Ret(0)
    ELSE OrElse(GonOut(ArrOffs(rep, i + idx_1), ArrOffs(rep, i + idx_2), level,
                       anti_doublecount),
                SelfGonsOut(rep, idx_1, idx_2, seg_length, level,
                            anti_doublecount, i + 1))

\* compare_self(rep, idx_1, idx_2, seg_length, level, anti_doublecount)
CompareSelfOut(rep, idx_1, idx_2, seg_length, level, anti_doublecount) ==
    SelfGonsOut(rep, idx_1, idx_2, seg_length, level, anti_doublecount, 0)

\* the value compare_self returns where every read is in bounds
CompareSelf(rep, idx_1, idx_2, seg_length, level, anti_doublecount) ==
    (CHOOSE o \in CompareSelfOut(rep, idx_1, idx_2, seg_length, level,
                                 anti_doublecount) : TRUE).val

\* size_t step = rep->period ? rep->period : 1;
PeriodStep(rep) == IF rep.period # 0 THEN rep.period ELSE 1

\* fval and comp = compare_self(rep, idx, (1 + fval)*step + noffs, step, level,
\* FALSE) as _booth_normalise holds them, with the noffs they were taken at
BoothProbe(rep, level, step, idx, noffs, fval) ==
    [noffs |-> noffs,
     fval |-> fval,
     comp |-> CompareSelf(rep, idx, (1 + fval) * step + noffs, step, level, FALSE)]

\* the while loop of _booth_normalise; st = [noffs, fval, comp]
RECURSIVE BoothInner(_, _, _, _, _, _)
BoothInner(rep, level, step, idx, ffunc, st) ==
    IF st.fval # BOOTH_NIL /\ st.comp # 0
    THEN BoothInner(rep, level, step, idx, ffunc,
            BoothProbe(rep, level, step, idx,
                IF st.comp < 0 THEN idx - (1 + st.fval) * step ELSE st.noffs,
                ffunc[st.fval]))
    ELSE st

\* if(fval == BOOTH_NIL && comp != 0)
BoothMiss(st) == st.fval = BOOTH_NIL /\ st.comp # 0

\* noffs after the if that follows the while loop
BoothOffset(st, idx) == IF BoothMiss(st) /\ st.comp < 0 THEN idx ELSE st.noffs

\* ffunc after the assignment that ends the body of the for loop (the array
\* is not initialised: ffunc holds the entries written so far)
BoothStore(st, step, idx, ffunc) ==
    ((idx - BoothOffset(st, idx)) \div step
        :> (IF BoothMiss(st) THEN BOOTH_NIL ELSE 1 + st.fval)) @@ ffunc

\* the for loop of _booth_normalise, from idx on
RECURSIVE BoothOuter(_, _, _, _, _, _)
RECURSIVE BoothAfterWhile(_, _, _, _, _, _)
BoothAfterWhile(rep, level, step, idx, ffunc, st) ==
    BoothOuter(rep, level, step, idx + step, BoothStore(st, step, idx, ffunc),
               BoothOffset(st, idx))

BoothOuter(rep, level, step, idx, ffunc, noffs) ==
    IF idx >= 2 * rep.length THEN noffs
    ELSE BoothAfterWhile(rep, level, step, idx, ffunc,
            BoothInner(rep, level, step, idx, ffunc,
                BoothProbe(rep, level, step, idx, noffs,
                           ffunc[(idx - noffs) \div step - 1])))

\* _booth_normalise(rep, level)
BoothNormalise(rep, level) ==
    IF rep.period = rep.length THEN rep.offset
    ELSE rep.offset + BoothOuter(rep, level, PeriodStep(rep), PeriodStep(rep),
                                 (0 :> BOOTH_NIL), 0)

\* the length of the segments _find_period compares
PeriodLimit(rep) == IF rep.period # 0 THEN rep.period ELSE rep.length

\* the for loop of _find_period, from the candidate period on
RECURSIVE FindPeriodFrom(_, _, _, _)
FindPeriodFrom(rep, level, step, period) ==
    IF period > rep.length \div 2 THEN rep.length
    ELSE IF rep.length % period # 0
    THEN FindPeriodFrom(rep, level, step, period + step)
    ELSE IF CompareSelf(rep, 0, period, PeriodLimit(rep), level, TRUE) = 0
    THEN period
    ELSE FindPeriodFrom(rep, level, step, period + step)

\* _find_period(rep, level)
FindPeriod(rep, level) ==
    FindPeriodFrom(rep, level, PeriodStep(rep), PeriodStep(rep))

\* the period left as it was
KeepPeriod(rep, level) == rep

\* rep->period = _find_period(rep, level);
SetPeriod(rep, level) == [rep EXCEPT !.period = FindPeriod(rep, level)]

\* normalise_cycrep(rep, level), rep not NULL
NormaliseCycrep(rep, level) ==
    SetPeriod([rep EXCEPT !.offset = BoothNormalise(rep, level)], level)

\* the value compare_cycrep returns where every read is in bounds
CompareCycrep(rep_1, rep_2, level) ==
    (CHOOSE o \in CompareCycrepOut(rep_1, rep_2, level) : TRUE).val

\* the factor get_symmetry takes from one part
RotationalFactorAlways(rep) == rep.length \div rep.period

RotationalFactor(rep) ==
    IF rep.length = rep.n_flavidx THEN rep.length \div rep.period ELSE 1

\* the for loop of get_symmetry, from part i on
RECURSIVE SymmetryLoop(_, _, _, _, _)
RECURSIVE SymmetryRuns(_, _, _, _, _)
SymmetryRuns(crep, i, eq_idx, eq_fact, sym) ==
    IF crep.eq_reps[eq_idx] = crep.eq_reps[i]
    THEN SymmetryLoop(crep, i + 1, eq_idx, eq_fact * (1 + i - eq_idx), sym)
    ELSE SymmetryLoop(crep, i + 1, i, 1, sym * eq_fact)

SymmetryLoop(crep, i, eq_idx, eq_fact, sym) ==
    IF i >= crep.nreps THEN sym * eq_fact
    ELSE SymmetryRuns(crep, i, eq_idx, eq_fact,
                      sym * RotationalFactor(crep.reps[i]))

\* get_symmetry(crep)
GetSymmetry(crep) == SymmetryLoop(crep, 0, 0, 1, 1)

(***************************************************************************)
(* Traversing a generator: for(gen; gen; ++gen) visit the permutation.    *)
(***************************************************************************)
\* the ordered (ascending) sequences of positive trace lengths of sum <= MaxTraceSum
TraceLists ==
    {R \in UNION {[1..k -> 1..MaxTraceSum] : k \in 1..MaxTraceSum} :
        /\ SeqSum(R) <= MaxTraceSum
        /\ \A i \in 1..(Len(R) - 1) : R[i] <= R[i + 1]}

NoGen == [kind |-> "none"]

GenIdle ==
    /\ gen = NoGen
    /\ genR = <<>>
    /\ visited = {}
    /\ nvisited = 0
    /\ nincr = 0
    /\ passes = 0

PermIdle ==
    /\ pperm = <<>>
    /\ ppow = 0
    /\ pres = <<>>

NotCalled == [called |-> FALSE]

CycIdle ==
    /\ part = NullCycrep
    /\ partStages = <<>>
    /\ partPrev = [offset |-> 0, period |-> 0]

CmpIdle ==
    /\ cmpA = NullCycrep
    /\ cmpB = NullCycrep
    /\ cmpC = NullCycrep
    /\ cmpLevel = 0
    /\ cmpRes = NotCalled
    /\ conA = 0
    /\ conB = 0
    /\ conRes = NotCalled

SymIdle ==
    /\ symCrep = Comprep(<<>>, <<>>)
    /\ symRes = 0

NoDiagram == [npolys |-> 0]

RepIdle ==
    /\ diagr = NoDiagram
    /\ repCrep = NotCalled
    /\ repSym = 0

\* what represent_diagram allocates for the parts before its loop; eq_reps is
\* allocated after the loop
UnsortedComprep(reps) ==
    [nreps |-> Len(reps), reps |-> CArray(reps), eq_reps |-> CArray(<<>>)]

SrtIdle ==
    /\ srtCrep = UnsortedComprep(<<>>)
    /\ srtSorted = FALSE
    /\ srtOob = FALSE

VfsIdle ==
    /\ vfsOrder = 0
    /\ vfsLegs = 0
    /\ vfsSplits = <<>>
    /\ vfsVerts = <<>>

\* no Propagator is under construction
PropIdle ==
    /\ prop = NotCalled
    /\ propOnce = NotCalled
    /\ propCalls = 0

\* no Permutation is applied to the bits of a number
BitsIdle ==
    /\ pbMap = <<>>
    /\ pbBits = 0
    /\ pbOffset = 0
    /\ pbBlock = 0
    /\ pbRes = -1
    /\ pbParity = -1

\* generate is not called
GenerateIdle ==
    /\ dgOrder = 0
    /\ dgLegs = 0
    /\ dgSinglets = FALSE
    /\ dgTraceless = FALSE
    /\ dgCalls = <<>>
    /\ dgDiagrs = <<>>
    /\ dgReturned = <<>>
    /\ dgDone = FALSE

\* no Diagram is built
DiagramIdle ==
    /\ dDiagram = <<>>
    /\ dSteps = 0

\* info_sort is not called with whence
WhenceIdle ==
    /\ whList = <<>>
    /\ whSorted = <<>>
    /\ whWhence = <<>>
    /\ whRank = <<>>

\* represent_diagram is not followed step by step
FspIdle ==
    /\ fspDiagr = NoDiagram
    /\ fspStarted = FALSE
    /\ fspPIdx = 0
    /\ fspPolyReps = {}
    /\ fspStack = <<>>
    /\ fspDepth = 0
    /\ fspNulls = 0
    /\ fspDone = FALSE

\* no generic cycle is made
CycleIdle ==
    /\ cycle = [length |-> 0]
    /\ cycleRes = [call |-> "none"]
    /\ cycleOob = FALSE

OtherIdle == RepIdle /\ SrtIdle /\ VfsIdle /\ PropIdle /\ BitsIdle /\ GenerateIdle /\ DiagramIdle /\ WhenceIdle /\ FspIdle /\ CycleIdle

GenInit ==
    /\ PermIdle /\ CycIdle /\ CmpIdle /\ SymIdle /\ OtherIdle
    /\ \/ \E n \in 1..MaxGenSize : gen = [kind |-> "Zn", g |-> ZnNew(n)] /\ genR = <<>>
       \/ \E n \in 1..MaxGenSize : gen = [kind |-> "Sn", g |-> SnNew(n)] /\ genR = <<>>
       \/ \E R \in TraceLists : gen = [kind |-> "ZR", g |-> ZRNew(R)] /\ genR = R
    /\ visited = {gen.g.perm}
    /\ nvisited = 1
    /\ nincr = 0
    /\ passes = 0

\* the bookkeeping of the traversal: a traversal begins at construction and
\* after every increment that set done; the permutation is observed at its
\* beginning and after every increment that leaves done false
Observe(next) ==
    LET fresh == gen.g.done
        v0 == IF fresh THEN {gen.g.perm} ELSE visited
        n0 == IF fresh THEN 1 ELSE nvisited
        i0 == IF fresh THEN 0 ELSE nincr
    IN /\ gen' = [gen EXCEPT !.g = next]
       /\ nincr' = i0 + 1
       /\ visited' = IF next.done THEN v0 ELSE v0 \cup {next.perm}
       /\ nvisited' = IF next.done THEN n0 ELSE n0 + 1
       /\ passes' = IF next.done THEN passes + 1 ELSE passes
       /\ UNCHANGED <<genR, permvars, cycvars, cmpvars, symvars, othervars>>

ZnIncrement ==
    /\ gen.kind = "Zn"
    /\ passes < MaxPasses
    /\ Observe(ZnInc(gen.g))

SnIncrement ==
    /\ gen.kind = "Sn"
    /\ passes < MaxPasses
    /\ Observe(SnInc(gen.g))

ZRIncrement ==
    /\ gen.kind = "ZR"
    /\ passes < MaxPasses
    /\ Observe(ZRInc(gen.g))

GenNext == ZnIncrement \/ SnIncrement \/ ZRIncrement

SpecGen == GenInit /\ [][GenNext]_vars

(***************************************************************************)
(* Operations on one Permutation.                                          *)
(***************************************************************************)
PermInit ==
    /\ GenIdle /\ CycIdle /\ CmpIdle /\ SymIdle /\ OtherIdle
    /\ \E n \in 1..MaxPermSize : pperm \in AllPerms(n)
    /\ ppow = 0
    /\ pres = <<>>

\* res = p ^ k, for an exponent up to the order of p
ApplyPower ==
    /\ pperm # <<>>
    /\ ppow = 0
    /\ \E k \in 1..Order(pperm) :
          /\ ppow' = k
          /\ pres' = Power(pperm, k)
    /\ UNCHANGED <<pperm, genvars, cycvars, cmpvars, symvars, othervars>>

PermNext == ApplyPower

SpecPerm == PermInit /\ [][PermNext]_vars

(***************************************************************************)
(* Normalising one part level by level, as represent_part does             *)
(* (src/unnamed/part_009), and normalising it once more at the level it    *)
(* was normalised at last.                                                 *)
(***************************************************************************)
\* the gons of a part: an external leg of order 2 or 4 whose vertex has no
\* flavour-split connection (0) or one (compreps 1, 2), and a leg with a
\* propagator of distance 2 next to it
CycGons ==
    {Leg(ord, con) : ord \in {2, 4}, con \in {0, 1, 2}} \cup {LegWithPropagator}

FreshParts ==
    {FreshCycrep(gons) : gons \in UNION {[1..n -> CycGons] : n \in 1..MaxCycLen}}

CycInit ==
    /\ GenIdle /\ PermIdle /\ CmpIdle /\ SymIdle /\ OtherIdle
    /\ part \in FreshParts
    /\ partStages = <<>>
    /\ partPrev = [offset |-> 0, period |-> 0]

Normalise(level) ==
    /\ part' = NormaliseCycrep(part, level)
    /\ partStages' = Append(partStages, level)
    /\ partPrev' = [offset |-> part.offset, period |-> part.period]
    /\ UNCHANGED <<genvars, permvars, cmpvars, symvars, othervars>>

NormaliseTop ==
    /\ part # NullCycrep
    /\ partStages = <<>>
    /\ Normalise(TOP_LEVEL)

NormaliseOrd ==
    /\ partStages = <<TOP_LEVEL>>
    /\ Normalise(ORD_LEVEL)

NormaliseFsp ==
    /\ partStages = <<TOP_LEVEL, ORD_LEVEL>>
    /\ Normalise(FSP_LEVEL)

\* a second call at the level of the latest call
NormaliseAgain ==
    /\ partStages # <<>>
    /\ IF Len(partStages) = 1 THEN TRUE
       ELSE partStages[Len(partStages)] # partStages[Len(partStages) - 1]
    /\ Normalise(partStages[Len(partStages)])

CycNext == NormaliseTop \/ NormaliseOrd \/ NormaliseFsp \/ NormaliseAgain

SpecCyc == CycInit /\ [][CycNext]_vars

(***************************************************************************)
(* Comparing cycreps and compreps.                                         *)
(***************************************************************************)
\* represent_part: normalise_cycrep at TOP_LEVEL, ORD_LEVEL, FSP_LEVEL
RepresentPart(fresh) ==
    NormaliseCycrep(NormaliseCycrep(NormaliseCycrep(fresh, TOP_LEVEL),
                                    ORD_LEVEL), FSP_LEVEL)

\* the gons of the single-gon parts compared: legs of order 2 and 4, legs
\* with a flavour-split connection, and a singlet
CmpGons ==
    {Leg(2, 0), Leg(4, 0), Leg(2, 1), Leg(2, 3), Leg(2, 4), Leg(2, 6),
     Leg(2, 7), SingletGon}

\* the normalised parts compared: every single-gon part, the longer parts
\* made of plain legs, the parts of a vertex all of whose sides are singlet
\* propagators (check_zero_fsp keeps it if it has two or more); and NULL
CmpParts ==
    {NullCycrep}
        \cup {RepresentPart(FreshCycrep(<<g>>)) : g \in CmpGons}
        \cup {RepresentPart(FreshCycrep(gons)) :
                gons \in UNION {[1..n -> {Leg(2, 0), Leg(4, 0)}] : n \in 2..MaxCmpLen}}
        \cup {RepresentPart(FreshCycrep([k \in 1..n |-> g])) :
                g \in {SingletGon, SingletGonOrd4}, n \in 2..MaxCmpLen}

CmpLevels == {TOP_LEVEL, ORD_LEVEL, FSP_LEVEL, ALL_LEVELS}

CmpInit ==
    /\ GenIdle /\ PermIdle /\ CycIdle /\ SymIdle /\ OtherIdle
    /\ cmpLevel = 0
    /\ cmpRes = NotCalled
    /\ conRes = NotCalled
    /\ \/ /\ cmpA \in CmpParts
          /\ cmpB \in CmpParts
          /\ cmpC \in CmpParts
          /\ conA = 0
          /\ conB = 0
       \/ /\ cmpA = NullCycrep
          /\ cmpB = NullCycrep
          /\ cmpC = NullCycrep
          /\ conA \in Addresses
          /\ conB \in Addresses

\* compare_cycrep on the pairs of cmpA, cmpB, cmpC at one level
CompareCycreps ==
    /\ cmpLevel = 0
    /\ ~conRes.called
    /\ conA = 0 /\ conB = 0
    /\ \E level \in CmpLevels :
          /\ cmpLevel' = level
          /\ \E aa \in CompareCycrepOut(cmpA, cmpA, level),
                ab \in CompareCycrepOut(cmpA, cmpB, level),
                ba \in CompareCycrepOut(cmpB, cmpA, level),
                bc \in CompareCycrepOut(cmpB, cmpC, level),
                ac \in CompareCycrepOut(cmpA, cmpC, level) :
                cmpRes' = [called |-> TRUE, aa |-> aa, ab |-> ab, ba |-> ba,
                           bc |-> bc, ac |-> ac]
    /\ UNCHANGED <<cmpA, cmpB, cmpC, conA, conB, conRes,
                   genvars, permvars, cycvars, symvars, othervars>>

\* compare_comprep on conA and conB, both ways
CompareCompreps ==
    /\ ~conRes.called
    /\ cmpLevel = 0
    /\ cmpA = NullCycrep /\ cmpB = NullCycrep /\ cmpC = NullCycrep
    /\ \E ab \in CompareComprepOut(conA, conB),
          ba \in CompareComprepOut(conB, conA) :
          conRes' = [called |-> TRUE, ab |-> ab, ba |-> ba]
    /\ UNCHANGED <<cmpA, cmpB, cmpC, cmpLevel, cmpRes, conA, conB,
                   genvars, permvars, cycvars, symvars, othervars>>

CmpNext == CompareCycreps \/ CompareCompreps

SpecCmp == CmpInit /\ [][CmpNext]_vars

(***************************************************************************)
(* The comprep of a diagram, part by part (represent_diagram,              *)
(* src/unnamed/part_009), and its symmetry factor.                         *)
(***************************************************************************)
SymGons == {Leg(2, 0), Leg(4, 0), SingletGon}

\* the parts a diagram is made of, as represent_part returns them
SymParts ==
    {RepresentPart(FreshCycrep(gons)) :
        gons \in UNION {[1..n -> SymGons] : n \in 1..MaxSymLen}}

\* the parts of a comprep, in order
Parts(crep) == [i \in 1..crep.nreps |-> crep.reps[i - 1]]

\* info_sort with _compare_rep, as the insertion of one more part behind the
\* parts not greater than it
RECURSIVE InsertPart(_, _)
InsertPart(parts, p) ==
    IF parts = <<>> THEN <<p>>
    ELSE IF CompareCycrep(p, Head(parts), ALL_LEVELS) < 0 THEN <<p>> \o parts
    ELSE <<Head(parts)>> \o InsertPart(Tail(parts), p)

\* the rank info_sort gives the i-th of the sorted parts: one more than its
\* predecessor's unless the two compare equal
RECURSIVE Rank(_, _)
Rank(parts, i) ==
    IF i = 1 THEN 0
    ELSE IF CompareCycrep(parts[i - 1], parts[i], ALL_LEVELS) # 0
    THEN Rank(parts, i - 1) + 1
    ELSE Rank(parts, i - 1)

SortedComprep(parts) == Comprep(parts, [i \in 1..Len(parts) |-> Rank(parts, i)])

SymInit ==
    /\ GenIdle /\ PermIdle /\ CycIdle /\ CmpIdle /\ OtherIdle
    /\ symCrep = Comprep(<<>>, <<>>)
    /\ symRes = 0

\* represent_diagram meets one more part
AddPart ==
    /\ symRes = 0
    /\ symCrep.nreps < MaxSymParts
    /\ \E p \in SymParts :
          symCrep' = SortedComprep(InsertPart(Parts(symCrep), p))
    /\ UNCHANGED <<symRes, genvars, permvars, cycvars, cmpvars, othervars>>

\* symRes = get_symmetry(symCrep)
ComputeSymmetry ==
    /\ symRes = 0
    /\ symCrep.nreps >= 1
    /\ symRes' = GetSymmetry(symCrep)
    /\ UNCHANGED <<symCrep, genvars, permvars, cycvars, cmpvars, othervars>>

SymNext == AddPart \/ ComputeSymmetry

SpecSym == SymInit /\ [][SymNext]_vars

(***************************************************************************)
(* info_sort: a merge sort that also ranks the sorted elements.  The      *)
(* elements are cycreps, compared by _compare_rep, i.e. compare_cycrep at *)
(* ALL_LEVELS.  A comparison that reads out of bounds can return anything;*)
(* a table f fixes what each comparison returns.                          *)
(***************************************************************************)
\* the pairs of elements of an array
Pairs(list) == {<<list[i], list[j]>> : i \in DOMAIN list, j \in DOMAIN list}

\* the pairs whose comparison reads out of bounds
UBPairs(list) ==
    {p \in Pairs(list) :
        \E o \in CompareCycrepOut(p[1], p[2], ALL_LEVELS) : o.oob}

CompareTable(list, g) ==
    [p \in Pairs(list) |->
        IF p \in UBPairs(list) THEN [val |-> g[p], oob |-> TRUE]
        ELSE CHOOSE o \in CompareCycrepOut(p[1], p[2], ALL_LEVELS) : TRUE]

\* what _compare_rep can return on the elements of list
CompareTables(list) ==
    {CompareTable(list, g) : g \in [UBPairs(list) -> {-1, 0, 1}]}

\* CMPARR(a, i, b, j), and whether it read out of bounds
CmpArr(f, a, i, b, j) == f[<<a[i], b[j]>>].val
CmpOob(f, a, i, b, j) == f[<<a[i], b[j]>>].oob

\* rank[k] = (k > 0 && CMPARR(lb, k-1, la, i)) ? ++r : r;
NextRank(f, st, k, la, i, ranked) ==
    IF ranked /\ k > 0 /\ CmpArr(f, st.lb, k - 1, la, i) # 0
    THEN st.r + 1 ELSE st.r

\* element i of la goes to lb[k], ranked against lb[k-1]
Place(f, st, k, la, i, ranked) ==
    [st EXCEPT !.lb[k] = la[i],
               !.r = NextRank(f, st, k, la, i, ranked),
               !.rank = IF ranked
                        THEN [st.rank EXCEPT ![k] = NextRank(f, st, k, la, i, ranked)]
                        ELSE st.rank,
               !.oob = st.oob \/ (ranked /\ k > 0 /\ CmpOob(f, st.lb, k - 1, la, i))]

\* the equal element of the second half goes right behind, with the same rank
PlaceEqual(st, k, la, ranked) ==
    [st EXCEPT !.lb[k] = la[st.j],
               !.rank = IF ranked THEN [st.rank EXCEPT ![k] = st.r] ELSE st.rank,
               !.j = st.j + 1]

\* comp = CMPARR(la, i, la, j) was evaluated
Compared(f, st, la) == [st EXCEPT !.oob = st.oob \/ CmpOob(f, la, st.i, la, st.j)]

AdvanceI(st) == [st EXCEPT !.i = st.i + 1]
AdvanceJ(st) == [st EXCEPT !.j = st.j + 1]

\* the for loop of _merge, from k on
RECURSIVE MergeLoop(_, _, _, _, _, _, _)
MergeLoop(f, la, st, k, mid, end, ranked) ==
    IF k >= end THEN st
    ELSE IF st.i < mid /\ st.j >= end
    THEN MergeLoop(f, la, AdvanceI(Place(f, st, k, la, st.i, ranked)),
                   k + 1, mid, end, ranked)
    ELSE IF st.i < mid /\ CmpArr(f, la, st.i, la, st.j) <= 0
    THEN IF st.i + 1 < mid /\ CmpArr(f, la, st.i, la, st.j) = 0
         THEN MergeLoop(f, la,
                        PlaceEqual(AdvanceI(Place(f, Compared(f, st, la), k,
                                                  la, st.i, ranked)),
                                   k + 1, la, ranked),
                        k + 2, mid, end, ranked)
         ELSE MergeLoop(f, la,
                        AdvanceI(Place(f, Compared(f, st, la), k, la, st.i, ranked)),
                        k + 1, mid, end, ranked)
    ELSE IF st.i < mid
    THEN MergeLoop(f, la,
                   AdvanceJ(Place(f, Compared(f, st, la), k, la, st.j, ranked)),
                   k + 1, mid, end, ranked)
    ELSE MergeLoop(f, la, AdvanceJ(Place(f, st, k, la, st.j, ranked)),
                   k + 1, mid, end, ranked)

\* _merge(la, lb, begin, mid, end, size, compare, wa, wb, rank): a holds
\* la, lb and rank
Merge(f, a, begin, mid, end, ranked) ==
    MergeLoop(f, a.la,
              [lb |-> a.lb,
               rank |-> IF ranked THEN [a.rank EXCEPT ![0] = 0] ELSE a.rank,
               r |-> 0, i |-> begin, j |-> mid, oob |-> a.oob],
              begin, mid, end, ranked)

\* the roles of la and lb exchanged
Reversed(a) == [a EXCEPT !.la = a.lb, !.lb = a.la]

\* what _merge leaves behind
Merged(a, st) == [la |-> a.la, lb |-> st.lb, rank |-> st.rank, oob |-> st.oob]

\* the halves sorted in la are merged into lb
MergeHalves(f, a, begin, end, ranked) ==
    Merged(a, Merge(f, a, begin, (end + begin) \div 2, end, ranked))

\* _split_merge(la, lb, begin, end, size, compare, wa, wb, rank): the halves
\* are sorted with la and lb exchanged and without rank
RECURSIVE SplitMerge(_, _, _, _, _)
SplitMerge(f, a, begin, end, ranked) ==
    IF end - begin < 2
    THEN IF ranked /\ end - begin > 0
         THEN [a EXCEPT !.rank[begin] = 0]
         ELSE a
    ELSE MergeHalves(f,
                     Reversed(SplitMerge(f,
                                         SplitMerge(f, Reversed(a), begin,
                                                    (end + begin) \div 2, FALSE),
                                         (end + begin) \div 2, end, FALSE)),
                     begin, end, ranked)

\* info_sort(list, nitems, size, compare, NULL, NULL, rank, NULL): the sorted
\* list is lb, _split_merge being called with the copy as la
InfoSort(f, list, nitems) ==
    SplitMerge(f, [la |-> list, lb |-> list,
                   rank |-> [i \in 0..(nitems - 1) |-> -1], oob |-> FALSE],
               0, nitems, TRUE)

\* crep->eq_reps = salloc(...); info_sort(crep->reps, crep->nreps, ...,
\* _compare_rep, NULL, NULL, crep->eq_reps, NULL);
SortParts(f, crep) ==
    [crep EXCEPT !.reps = InfoSort(f, crep.reps, crep.nreps).lb,
                 !.eq_reps = InfoSort(f, crep.reps, crep.nreps).rank]

(***************************************************************************)
(* Representing a diagram: polygons joined by propagators are traversed   *)
(* along the boundary of a flavour part (init_part, fill_part), the part  *)
(* is normalised (represent_part), and the parts are collected in a       *)
(* comprep (represent_diagram).  The diagrams are those make_contact_     *)
(* diagram and _cut_edge build: their edges are external legs and         *)
(* propagators.                                                            *)
(***************************************************************************)
\* enum poly_ptr_type
EXT_LEG == 0
PROPGTR == 1
SINGLET == 2
FLSPLIT == 4

PolyPtr(idx, type) == [idx |-> idx, type |-> type]

\* the edges make_polygon allocates with scalloc when it is given none
ZeroedEdges(ngons) == [i \in 0..(ngons - 1) |-> PolyPtr(0, EXT_LEG)]

\* make_polygon(gons, edges, ngons, order)
MakePolygon(gons, edges, ngons, order) ==
    [ngons |-> ngons,
     order |-> order,
     split_budget |-> order,
     gons |-> [i \in 0..(ngons - 1) |-> gons[i]],
     edges |-> [i \in 0..(ngons - 1) |-> edges[i]]]

\* make_contact_diagram(ngons, order), up to the representation, which is
\* the action Represent
MakeContactDiagram(ngons, order) ==
    [ngons |-> ngons,
     order |-> order,
     gons |-> [i \in 0..(ngons - 1) |-> i],
     gon_idx |-> [i \in 0..(ngons - 1) |-> i],
     edges |-> [i \in 0..(ngons - 1) |-> 0],
     npolys |-> 1,
     polys |-> (0 :> MakePolygon([i \in 0..(ngons - 1) |-> i],
                                 ZeroedEdges(ngons), ngons, order))]

\* for(g_idx = 0; poly->gons[g_idx] != gon; g_idx++);
FindGon(poly, gon) ==
    CHOOSE g \in 0..(poly.ngons - 1) :
        /\ poly.gons[g] = gon
        /\ \A h \in 0..(g - 1) : poly.gons[h] # gon

\* the gons and edges of the polygon _cut_edge attaches at edge: the two
\* gons of the edge, the new gons between them, and a propagator back
NewPoly(base, edge, ngons) ==
    [i \in 0..(ngons + 1) |->
        IF i = 0 THEN base.gons[edge]
        ELSE IF i = ngons + 1 THEN base.gons[(edge + 1) % base.ngons]
        ELSE base.ngons + i - 1]

NewEdges(base, edge, ngons) ==
    [i \in 0..(ngons + 1) |->
        IF i = ngons + 1 THEN PolyPtr(base.edges[edge], PROPGTR)
        ELSE PolyPtr(0, EXT_LEG)]

\* the gons of the cut diagram: those of base with the new ones behind edge
CutGons(base, edge, ngons) ==
    [i \in 0..(base.ngons + ngons - 1) |->
        IF i <= edge THEN base.gons[i]
        ELSE IF i <= edge + ngons THEN base.ngons + (i - edge - 1)
        ELSE base.gons[i - ngons]]

\* the polygon each edge of the cut diagram belongs to
CutEdges(base, edge, ngons) ==
    [i \in 0..(base.ngons + ngons - 1) |->
        IF i < edge THEN base.edges[i]
        ELSE IF i <= edge + ngons THEN base.npolys
        ELSE base.edges[i - ngons]]

\* the polygon that owned the edge, its side at the edge now a propagator
CutPoly(cutpoly, gon, npolys) ==
    [cutpoly EXCEPT !.edges[FindGon(cutpoly, gon)] = PolyPtr(npolys, PROPGTR)]

\* _cut_edge(base, edge, ngons, order), up to the representation
CutEdge(base, edge, ngons, order) ==
    [ngons |-> base.ngons + ngons,
     order |-> base.order + order,
     gons |-> CutGons(base, edge, ngons),
     gon_idx |-> [g \in 0..(base.ngons + ngons - 1) |->
                    CHOOSE i \in 0..(base.ngons + ngons - 1) :
                        CutGons(base, edge, ngons)[i] = g],
     edges |-> CutEdges(base, edge, ngons),
     npolys |-> base.npolys + 1,
     polys |-> [p \in 0..base.npolys |->
                  IF p = base.npolys
                  THEN MakePolygon(NewPoly(base, edge, ngons),
                                   NewEdges(base, edge, ngons), ngons + 2, order)
                  ELSE IF p = base.edges[edge]
                  THEN CutPoly(base.polys[p], base.gons[edge], base.npolys)
                  ELSE base.polys[p]]]

\* one step along the boundary of a part: across a propagator to the same
\* gon of the polygon behind it, otherwise on to the next gon
StepPoly(d, p_idx, g_idx) ==
    IF d.polys[p_idx].edges[g_idx].type = PROPGTR
    THEN d.polys[p_idx].edges[g_idx].idx
    ELSE p_idx

StepGon(d, p_idx, g_idx) ==
    IF d.polys[p_idx].edges[g_idx].type = PROPGTR
    THEN FindGon(d.polys[StepPoly(d, p_idx, g_idx)], d.polys[p_idx].gons[g_idx])
    ELSE (g_idx + 1) % d.polys[p_idx].ngons

\* case SINGLET: case EXT_LEG: the edges that make a side of the part
IsSide(type) == type \in {SINGLET, EXT_LEG}

\* represent_fsp_con(diagr, p_idx, master): its traversal leaves the polygon
\* across flavour splits only, so that without one nreps stays 0 and NULL
\* is returned
RepresentFspCon(d, p_idx) ==
    CHOOSE con \in {0} :
        \A g \in 0..(d.polys[p_idx].ngons - 1) :
            d.polys[p_idx].edges[g].type # FLSPLIT

\* the traversal of init_part: the sides counted (length) and the polygons
\* entered (poly_reps)
RECURSIVE InitPartWalk(_, _, _, _, _, _, _)
InitPartWalk(d, p_idx, g_idx, p_mark, g_mark, length, polys) ==
    IF StepPoly(d, p_idx, g_idx) = p_mark /\ StepGon(d, p_idx, g_idx) = g_mark
    THEN [length |-> IF IsSide(d.polys[p_idx].edges[g_idx].type)
                     THEN length + 1 ELSE length,
          polys |-> polys \cup {StepPoly(d, p_idx, g_idx)}]
    ELSE InitPartWalk(d, StepPoly(d, p_idx, g_idx), StepGon(d, p_idx, g_idx),
                      p_mark, g_mark,
                      IF IsSide(d.polys[p_idx].edges[g_idx].type)
                      THEN length + 1 ELSE length,
                      polys \cup {StepPoly(d, p_idx, g_idx)})

\* init_part(diagr, p_idx, poly_reps, master)
InitPart(d, p_idx) == InitPartWalk(d, p_idx, 0, p_idx, 0, 0, {p_idx})

\* the first traversal of fill_part: the position behind the first side
RECURSIVE FillStart(_, _, _)
FillStart(d, p_idx, g_idx) ==
    IF IsSide(d.polys[p_idx].edges[g_idx].type)
    THEN [p |-> p_idx, g |-> (g_idx + 1) % d.polys[p_idx].ngons]
    ELSE FillStart(d, StepPoly(d, p_idx, g_idx), StepGon(d, p_idx, g_idx))

\* _actual_dist(diagr, p_idx, g_idx), from the walk's position on
RECURSIVE ActualDistWalk(_, _, _, _, _)
ActualDistWalk(d, p_idx, g_idx, target, dist) ==
    IF d.polys[StepPoly(d, p_idx, g_idx)].gons[StepGon(d, p_idx, g_idx)] = target
    THEN IF IsSide(d.polys[p_idx].edges[g_idx].type) THEN dist + 1 ELSE dist
    ELSE ActualDistWalk(d, StepPoly(d, p_idx, g_idx), StepGon(d, p_idx, g_idx),
                        target,
                        IF IsSide(d.polys[p_idx].edges[g_idx].type)
                        THEN dist + 1 ELSE dist)

ActualDist(d, p_idx, g_idx) ==
    ActualDistWalk(d, p_idx, g_idx,
                   d.polys[p_idx].gons[(g_idx + 1) % d.polys[p_idx].ngons], 0)

\* line 0 of an entry, written at its external leg
ExtLegLineOfGon(d, p_idx, g_idx) ==
    Line(1, d.polys[p_idx].gons[g_idx], RepresentFspCon(d, p_idx))

ExtLegLine(d, p_idx, g_idx) ==
    Line(1, d.polys[p_idx].order, RepresentFspCon(d, p_idx))

\* the line a propagator adds to the entry being filled
PropagatorLine(d, p_idx, g_idx) ==
    Line(ActualDist(d, p_idx, g_idx), d.polys[p_idx].order,
         RepresentFspCon(d, p_idx))

\* the second traversal of fill_part: gons holds the entries completed,
\* lines the propagator lines of the entry being filled
RECURSIVE FillWalk(_, _, _, _, _, _, _)
FillWalk(d, p_idx, g_idx, p_mark, g_mark, gons, lines) ==
    IF d.polys[p_idx].edges[g_idx].type = EXT_LEG
    THEN IF StepPoly(d, p_idx, g_idx) = p_mark /\ StepGon(d, p_idx, g_idx) = g_mark
         THEN Append(gons, Gon(<<ExtLegLine(d, p_idx, g_idx)>> \o lines))
         ELSE FillWalk(d, StepPoly(d, p_idx, g_idx), StepGon(d, p_idx, g_idx),
                       p_mark, g_mark,
                       Append(gons, Gon(<<ExtLegLine(d, p_idx, g_idx)>> \o lines)),
                       <<>>)
    ELSE IF d.polys[p_idx].edges[g_idx].type = PROPGTR
    THEN FillWalk(d, StepPoly(d, p_idx, g_idx), StepGon(d, p_idx, g_idx),
                  p_mark, g_mark, gons,
                  Append(lines, PropagatorLine(d, p_idx, g_idx)))
    ELSE FillWalk(d, StepPoly(d, p_idx, g_idx), StepGon(d, p_idx, g_idx),
                  p_mark, g_mark, gons, lines)

\* fill_part(diagr, p_idx, part, master): the entries of the part
FillPart(d, p_idx) ==
    FillWalk(d, FillStart(d, p_idx, 0).p, FillStart(d, p_idx, 0).g,
             FillStart(d, p_idx, 0).p, FillStart(d, p_idx, 0).g, <<>>, <<>>)

\* represent_part(diagr, poly_reps, p_idx, NULL)
RepresentPartOf(d, p_idx) == RepresentPart(FreshCycrep(FillPart(d, p_idx)))

\* the loop of represent_diagram: a part for every polygon no part has
\* entered yet
RECURSIVE RepresentLoop(_, _, _, _)
RepresentLoop(d, p_idx, poly_reps, reps) ==
    IF p_idx >= d.npolys THEN reps
    ELSE IF p_idx \in poly_reps THEN RepresentLoop(d, p_idx + 1, poly_reps, reps)
    ELSE RepresentLoop(d, p_idx + 1, poly_reps \cup InitPart(d, p_idx).polys,
                       Append(reps, RepresentPartOf(d, p_idx)))

\* represent_diagram(diagr), _compare_rep returning what f says
RepresentDiagram(f, d) ==
    SortParts(f, UnsortedComprep(RepresentLoop(d, 0, {}, <<>>)))

(***************************************************************************)
(* represent_diagram collects the parts of a diagram in the order of its  *)
(* polygons and sorts them with info_sort.                                *)
(***************************************************************************)
\* the gons of the parts sorted: legs of order 2 and 4 without connection,
\* and legs with flavour-split connections of one and of two parts
SrtGons == {Leg(2, 0), Leg(4, 0), Leg(2, 1), Leg(2, 4), Leg(2, 7)}

\* the two parts of make_contact_diagram(5, 1) after _cut_edge(., 0, 1, 0)
\* and _split_poly(., 0): the side with the vertex of order 0 attached (its
\* connection is comprep 8), and the side of three legs (comprep 9)
GrownSide ==
    <<Leg(0, 0),
      Gon(<<Line(1, 1, 8), Line(1, 0, 0)>>),
      Gon(<<Line(1, 0, 0), Line(2, 1, 8)>>)>>
TripleSide == <<Leg(1, 9), Leg(1, 9), Leg(1, 9)>>

SrtParts ==
    {RepresentPart(FreshCycrep(<<g>>)) : g \in SrtGons}
        \cup {RepresentPart(FreshCycrep(<<Leg(2, 0), Leg(2, 0)>>))}
        \cup {RepresentPart(FreshCycrep(GrownSide)),
              RepresentPart(FreshCycrep(TripleSide))}

SrtInit ==
    /\ GenIdle /\ PermIdle /\ CycIdle /\ CmpIdle /\ SymIdle /\ RepIdle /\ VfsIdle /\ PropIdle /\ BitsIdle /\ GenerateIdle /\ DiagramIdle /\ WhenceIdle /\ FspIdle /\ CycleIdle
    /\ SrtIdle

\* crep->reps[crep->nreps] = represent_part(...); crep->nreps++;
MeetPart ==
    /\ ~srtSorted
    /\ srtCrep.nreps < MaxSrtParts
    /\ \E p \in SrtParts :
          srtCrep' = UnsortedComprep(Append(Parts(srtCrep), p))
    /\ UNCHANGED <<srtSorted, srtOob, genvars, permvars, cycvars, cmpvars,
                   symvars, repvars, vfsvars, propvars, bitsvars, dgvars, diagvars, whvars, fspvars, cyclvars>>

\* the parts are sorted and ranked
SortMet ==
    /\ ~srtSorted
    /\ srtCrep.nreps >= 1
    /\ \E f \in CompareTables(srtCrep.reps) :
          /\ srtCrep' = SortParts(f, srtCrep)
          /\ srtOob' = InfoSort(f, srtCrep.reps, srtCrep.nreps).oob
    /\ srtSorted' = TRUE
    /\ UNCHANGED <<genvars, permvars, cycvars, cmpvars, symvars, repvars, vfsvars, propvars, bitsvars, dgvars, diagvars, whvars, fspvars, cyclvars>>

SrtNext == MeetPart \/ SortMet

SpecSrt == SrtInit /\ [][SrtNext]_vars

(***************************************************************************)
(* A diagram is built, represented, and its symmetry factor computed.     *)
(***************************************************************************)
RepInit ==
    /\ GenIdle /\ PermIdle /\ CycIdle /\ CmpIdle /\ SymIdle /\ SrtIdle /\ VfsIdle /\ PropIdle /\ BitsIdle /\ GenerateIdle /\ DiagramIdle /\ WhenceIdle /\ FspIdle /\ CycleIdle
    /\ \E ngons \in 3..MaxContactGons, order \in 0..MaxRepOrder :
          diagr = MakeContactDiagram(ngons, order)
    /\ repCrep = NotCalled
    /\ repSym = 0

\* diagr = _cut_edge(diagr, edge, ngons, order)
Cut ==
    /\ repCrep = NotCalled
    /\ diagr.npolys < MaxRepPolys
    /\ \E edge \in 0..(diagr.ngons - 1), ngons \in 1..MaxCutGons,
          order \in 0..MaxRepOrder :
          diagr' = CutEdge(diagr, edge, ngons, order)
    /\ UNCHANGED <<repCrep, repSym, genvars, permvars, cycvars, cmpvars, symvars,
                   srtvars, vfsvars, propvars, bitsvars, dgvars, diagvars, whvars, fspvars, cyclvars>>

\* repCrep = represent_diagram(diagr)
Represent ==
    /\ repCrep = NotCalled
    /\ \E f \in CompareTables(CArray(RepresentLoop(diagr, 0, {}, <<>>))) :
          repCrep' = RepresentDiagram(f, diagr)
    /\ UNCHANGED <<diagr, repSym, genvars, permvars, cycvars, cmpvars, symvars,
                   srtvars, vfsvars, propvars, bitsvars, dgvars, diagvars, whvars, fspvars, cyclvars>>

\* repSym = get_symmetry(repCrep)
Symmetry ==
    /\ repCrep # NotCalled
    /\ repSym = 0
    /\ repSym' = GetSymmetry(repCrep)
    /\ UNCHANGED <<diagr, repCrep, genvars, permvars, cycvars, cmpvars, symvars,
                   srtvars, vfsvars, propvars, bitsvars, dgvars, diagvars, whvars, fspvars, cyclvars>>

RepNext == Cut \/ Represent \/ Symmetry

SpecRep == RepInit /\ [][RepNext]_vars


(***************************************************************************)
(* The flavour splits of a vertex (Diagram::valid_flav_splits,            *)
(* src/src/Diagram.cpp).  A std::vector is a sequence.                    *)
(***************************************************************************)
\* order - (split%2 && !(n_legs%2) ? 4 : 2)
RestOrder(order, n_legs, split) ==
    order - (IF split % 2 # 0 /\ n_legs % 2 = 0 THEN 4 ELSE 2)

\* flav_split.push_back(split) on every split of the rest
PushBack(flav_splits, split) ==
    [k \in 1..Len(flav_splits) |-> Append(flav_splits[k], split)]

RECURSIVE ValidFlavSplits(_, _, _)

\* the for loop of valid_flav_splits, from split on
RECURSIVE SplitLoop(_, _, _, _, _)
SplitLoop(order, n_legs, split, step, flav_splits) ==
    IF split > n_legs \div 2 THEN flav_splits
    ELSE SplitLoop(order, n_legs, split + step, step,
                   flav_splits
                       \o PushBack(ValidFlavSplits(RestOrder(order, n_legs, split),
                                                   n_legs - split, split),
                                   split))

\* Diagram::valid_flav_splits(order, n_legs, smallest_split)
ValidFlavSplits(order, n_legs, smallest_split) ==
    IF order = 2 THEN << <<n_legs>> >>
    ELSE SplitLoop(order, n_legs, smallest_split,
                   IF order > 4 THEN 1 ELSE 2, << <<n_legs>> >>)

\* Diagram::valid_vertices(order, n_legs): a vertex is a pair of an order and
\* a flavour split
ValidVertices(order, n_legs) ==
    [k \in 1..Len(ValidFlavSplits(order, n_legs, 2)) |->
        <<order, ValidFlavSplits(order, n_legs, 2)[k]>>]

VfsInit ==
    /\ GenIdle /\ PermIdle /\ CycIdle /\ CmpIdle /\ SymIdle /\ RepIdle /\ SrtIdle /\ PropIdle /\ BitsIdle /\ GenerateIdle /\ DiagramIdle /\ WhenceIdle /\ FspIdle /\ CycleIdle
    /\ vfsOrder \in {o \in 2..MaxVfsOrder : o % 2 = 0}
    /\ vfsLegs \in 4..MaxVfsLegs
    /\ vfsSplits = <<>>
    /\ vfsVerts = <<>>

\* vfsSplits = Diagram::valid_flav_splits(vfsOrder, vfsLegs)
CallValidFlavSplits ==
    /\ vfsSplits = <<>>
    /\ vfsSplits' = ValidFlavSplits(vfsOrder, vfsLegs, 2)
    /\ UNCHANGED <<vfsOrder, vfsLegs, vfsVerts, genvars, permvars, cycvars,
                   cmpvars, symvars, repvars, srtvars, propvars, bitsvars, dgvars, diagvars, whvars, fspvars, cyclvars>>

\* vfsVerts = Diagram::valid_vertices(vfsOrder, vfsLegs)
CallValidVertices ==
    /\ vfsVerts = <<>>
    /\ vfsVerts' = ValidVertices(vfsOrder, vfsLegs)
    /\ UNCHANGED <<vfsOrder, vfsLegs, vfsSplits, genvars, permvars, cycvars,
                   cmpvars, symvars, repvars, srtvars, propvars, bitsvars, dgvars, diagvars, whvars, fspvars, cyclvars>>

VfsNext == CallValidFlavSplits \/ CallValidVertices

SpecVfs == VfsInit /\ [][VfsNext]_vars

(***************************************************************************)
(* Propagator normalisation (Propagator::normalise).  A momentum mask is   *)
(* an mmask (uint32_t) whose bit i stands for momentum i; the masks here   *)
(* have at most MaxMomenta bits, so no shift overflows.                    *)
(***************************************************************************)
RECURSIVE BitAnd(_, _)
\* a & b
BitAnd(a, b) ==
    IF a = 0 \/ b = 0 THEN 0
    ELSE (a % 2) * (b % 2) + 2 * BitAnd(a \div 2, b \div 2)

RECURSIVE BitXor(_, _)
\* a ^ b
BitXor(a, b) ==
    IF a = 0 /\ b = 0 THEN 0
    ELSE ((a + b) % 2) + 2 * BitXor(a \div 2, b \div 2)

RECURSIVE BitOr(_, _)
\* a | b
BitOr(a, b) ==
    IF a = 0 /\ b = 0 THEN 0
    ELSE (IF a % 2 = 1 \/ b % 2 = 1 THEN 1 ELSE 0) + 2 * BitOr(a \div 2, b \div 2)

RECURSIVE bitcount(_)
\* bitwise::bitcount: clear the lowest 1-bit until none is left
bitcount(bits) ==
    IF bits = 0 THEN 0 ELSE 1 + bitcount(BitAnd(bits, bits - 1))

\* Propagator::normalise_mmask: m or its complement
NormaliseMmask(m, n_mom, last_mask, all_mask) ==
    IF \/ bitcount(m) > n_mom \div 2
       \/ (bitcount(m) = n_mom \div 2 /\ BitAnd(m, last_mask) # 0)
    THEN BitXor(m, all_mask)
    ELSE m

\* the fields of a Propagator as the constructor's initialiser list sets them
RawPropagator(momenta, n_mom, src_order, src_prev, dst_order, dst_prev) ==
    [momenta |-> momenta, n_mom |-> n_mom,
     src_order |-> src_order, src_prev |-> src_prev,
     dst_order |-> dst_order, dst_prev |-> dst_prev]

\* the source and the destination of a propagator exchanged
SwapEnds(p, norm) ==
    [p EXCEPT !.momenta = norm,
              !.src_order = p.dst_order, !.dst_order = p.src_order,
              !.src_prev = p.dst_prev, !.dst_prev = p.src_prev]

\* Propagator::normalise
PropNormalise(p) ==
    LET last_mask == 2 ^ (p.n_mom - 1)
        all_mask == 2 ^ p.n_mom - 1
        q == [p EXCEPT
                !.src_prev = NormaliseMmask(p.src_prev, p.n_mom, last_mask, all_mask),
                !.dst_prev = NormaliseMmask(p.dst_prev, p.n_mom, last_mask, all_mask)]
        norm == NormaliseMmask(p.momenta, p.n_mom, last_mask, all_mask)
    IN  IF norm # p.momenta THEN SwapEnds(q, norm) ELSE q

(***************************************************************************)
(* Specification SpecProp: a Propagator is constructed from arbitrary      *)
(* momentum masks over n_mom legs, which normalises it, and normalise() is *)
(* then applied again.                                                     *)
(***************************************************************************)
PropOrders == {2, 4}

PropInit ==
    /\ GenIdle /\ PermIdle /\ CycIdle /\ CmpIdle /\ SymIdle /\ RepIdle /\ SrtIdle /\ VfsIdle /\ BitsIdle /\ GenerateIdle /\ DiagramIdle /\ WhenceIdle /\ FspIdle /\ CycleIdle
    /\ \E n_mom \in 2..MaxMomenta :
       \E momenta, src_prev, dst_prev \in 0..(2 ^ n_mom - 1) :
       \E src_order, dst_order \in PropOrders :
          prop = RawPropagator(momenta, n_mom, src_order, src_prev, dst_order, dst_prev)
    /\ propOnce = NotCalled
    /\ propCalls = 0

\* the body of the constructor: normalise()
ConstructPropagator ==
    /\ prop # NotCalled
    /\ propCalls = 0
    /\ prop' = PropNormalise(prop)
    /\ propOnce' = PropNormalise(prop)
    /\ propCalls' = 1
    /\ UNCHANGED <<genvars, permvars, cycvars, cmpvars, symvars, repvars, srtvars, vfsvars, bitsvars, dgvars, diagvars, whvars, fspvars, cyclvars>>

\* a further call of normalise() on the constructed Propagator
NormalisePropagator ==
    /\ propCalls >= 1
    /\ propCalls < MaxNormalise
    /\ prop' = PropNormalise(prop)
    /\ propCalls' = propCalls + 1
    /\ UNCHANGED propOnce
    /\ UNCHANGED <<genvars, permvars, cycvars, cmpvars, symvars, repvars, srtvars, vfsvars, bitsvars, dgvars, diagvars, whvars, fspvars, cyclvars>>

PropNext == ConstructPropagator \/ NormalisePropagator

SpecProp == PropInit /\ [][PropNext]_vars

(***************************************************************************)
(* Permutation::permute_bits and Permutation::parity.  The numbers passed  *)
(* to permute_bits have at most MaxBitWidth bits, all within the blocks    *)
(* the permutation covers, so no shift leaves the integer type B and the   *)
(* loop never reads map past its end.                                      *)
(***************************************************************************)
\* a << sh
ShiftLeft(a, sh) == a * 2 ^ sh

\* a >> sh
ShiftRight(a, sh) == a \div 2 ^ sh

\* B mask = one << block_len - one: the subtraction binds tighter than the shift
BlockMask(block_len) == ShiftLeft(1, block_len - 1)

\* B res = bits & ((one << offset) - one)
LowBits(bits, offset) == BitAnd(bits, ShiftLeft(1, offset) - 1)

\* the loop of permute_bits: for(idx = 0; bits; bits >>= block_len, idx++)
RECURSIVE PermuteBitsLoop(_, _, _, _, _, _, _)
PermuteBitsLoop(map, bits, res, mask, offset, block_len, idx) ==
    IF bits = 0 THEN res
    ELSE PermuteBitsLoop(map, ShiftRight(bits, block_len),
            BitOr(res, ShiftLeft(BitAnd(bits, mask), (map[idx] + offset) * block_len)),
            mask, offset, block_len, idx + 1)

\* Permutation::permute_bits
PermuteBits(map, bits, offset, block_len) ==
    PermuteBitsLoop(map, ShiftRight(bits, offset * block_len), LowBits(bits, offset),
                    BlockMask(block_len), offset, block_len, 0)

\* the loop of Permutation::parity over the cycle type: n_evens counts the
\* cycle lengths with c_len % 2 != 0
RECURSIVE NEvens(_)
NEvens(decomp) ==
    IF decomp = <<>> THEN 0
    ELSE (IF Head(decomp) % 2 # 0 THEN 1 ELSE 0) + NEvens(Tail(decomp))

\* Permutation::parity
Parity(map) == NEvens(CycleType(map)) % 2

(***************************************************************************)
(* Specification SpecBits: a Permutation is applied to the bits of a       *)
(* number, and its parity is taken.                                        *)
(***************************************************************************)
BitsInit ==
    /\ GenIdle /\ PermIdle /\ CycIdle /\ CmpIdle /\ SymIdle /\ RepIdle /\ SrtIdle /\ VfsIdle /\ PropIdle /\ GenerateIdle /\ DiagramIdle /\ WhenceIdle /\ FspIdle /\ CycleIdle
    /\ \E n \in 1..MaxBitsPerm : pbMap \in AllPerms(n)
    /\ pbOffset \in 0..MaxBitsOffset
    /\ pbBlock \in 1..MaxBlockLen
    /\ pbBlock * (pbOffset + Size(pbMap)) <= MaxBitWidth
    /\ pbBits \in 0..(2 ^ (pbBlock * (pbOffset + Size(pbMap))) - 1)
    /\ pbRes = -1
    /\ pbParity = -1

\* res = p.permute_bits(bits, offset, block_len)
CallPermuteBits ==
    /\ pbMap # <<>>
    /\ pbRes = -1
    /\ pbRes' = PermuteBits(pbMap, pbBits, pbOffset, pbBlock)
    /\ UNCHANGED <<pbMap, pbBits, pbOffset, pbBlock, pbParity>>
    /\ UNCHANGED <<genvars, permvars, cycvars, cmpvars, symvars, repvars, srtvars, vfsvars, propvars, dgvars, diagvars, whvars, fspvars, cyclvars>>

\* p.parity()
CallParity ==
    /\ pbMap # <<>>
    /\ pbParity = -1
    /\ pbParity' = Parity(pbMap)
    /\ UNCHANGED <<pbMap, pbBits, pbOffset, pbBlock, pbRes>>
    /\ UNCHANGED <<genvars, permvars, cycvars, cmpvars, symvars, repvars, srtvars, vfsvars, propvars, dgvars, diagvars, whvars, fspvars, cyclvars>>

BitsNext == CallPermuteBits \/ CallParity

SpecBits == BitsInit /\ [][BitsNext]_vars

(***************************************************************************)
(* Diagram trees (src/src/DiagramNode.cpp, src/src/Diagram.cpp,            *)
(* src/src/Labelling.cpp).  A DiagramNode is a record; a leaf stands for   *)
(* an external leg, any other node for a vertex whose legs are grouped     *)
(* into flavour traces.  Positions in traces and legs are counted from 0   *)
(* as in the source; the sequences holding them start at 1.                *)
(***************************************************************************)
\* DiagramNode::DiagramNode(): a leaf
DiagramLeaf ==
    [is_leaf |-> TRUE, is_root |-> FALSE, is_singlet |-> FALSE, order |-> 0,
     momenta |-> 0, traces |-> <<>>, connect_idx |-> -1]

\* DiagramNode::FlavourTrace::FlavourTrace(n_legs, connected)
FlavourTrace(n_legs, connected) ==
    [legs |-> [k \in 1..n_legs |-> DiagramLeaf], n_idcs |-> n_legs,
     momenta |-> 0, connected |-> connected]

\* DiagramNode::DiagramNode(order, flav_split): the root of a single-vertex diagram
RootNode(order, flav_split) ==
    [is_leaf |-> FALSE, is_root |-> TRUE, is_singlet |-> FALSE, order |-> order,
     momenta |-> 0,
     traces |-> [k \in 1..Len(flav_split) |-> FlavourTrace(flav_split[k], FALSE)],
     connect_idx |-> -1]

\* DiagramNode::DiagramNode(order, flav_split, split_idx, singlet): a vertex
\* hanging on its parent by one leg of trace split_idx
VertexNode(order, flav_split, split_idx, singlet) ==
    [is_leaf |-> FALSE, is_root |-> FALSE, is_singlet |-> singlet, order |-> order,
     momenta |-> 0,
     traces |-> [k \in 1..Len(flav_split) |->
                    FlavourTrace(flav_split[k] - (IF k - 1 = split_idx THEN 1 ELSE 0),
                                 k - 1 = split_idx)],
     connect_idx |-> split_idx]

\* std::vector::back()
Back(s) == s[Len(s)]

\* the value of con_sum before any connected trace has set it; only the root
\* returns it, and Diagram::find_flav_split discards what the root returns
Indeterminate == "indeterminate"

RECURSIVE NodeFindFlavSplit(_, _)

\* find_flav_split: the state after one leg; st = [legs, sum, fs], r is what
\* the leg returned
FlavSplitAfterLeg(st, leg, r) ==
    IF leg.is_singlet
    THEN [legs |-> Append(st.legs, r.node), sum |-> st.sum,
          fs |-> IF r.ret > 0 THEN Append(r.fs, r.ret) ELSE r.fs]
    ELSE [legs |-> Append(st.legs, r.node), sum |-> st.sum + r.ret, fs |-> r.fs]

\* find_flav_split: the loop over the legs of one trace, from leg k on
RECURSIVE FlavSplitLegs(_, _, _)
FlavSplitLegs(legs, k, st) ==
    IF k > Len(legs) THEN st
    ELSE FlavSplitLegs(legs, k + 1,
            FlavSplitAfterLeg(st, legs[k], NodeFindFlavSplit(legs[k], st.fs)))

\* find_flav_split: the state after one trace; st = [traces, con_sum, fs], t
\* is the state after the legs of the trace
FlavSplitAfterTrace(st, tr, t) ==
    [traces |-> Append(st.traces, [tr EXCEPT !.legs = t.legs, !.n_idcs = t.sum]),
     con_sum |-> IF tr.connected THEN t.sum ELSE st.con_sum,
     fs |-> IF ~tr.connected /\ t.sum > 0 THEN Append(t.fs, t.sum) ELSE t.fs]

\* find_flav_split: the loop over the traces, from trace k on
RECURSIVE FlavSplitTraces(_, _, _)
FlavSplitTraces(traces, k, st) ==
    IF k > Len(traces) THEN st
    ELSE FlavSplitTraces(traces, k + 1,
            FlavSplitAfterTrace(st, traces[k],
                FlavSplitLegs(traces[k].legs, 1,
                              [legs |-> <<>>, sum |-> 0, fs |-> st.fs])))

\* the node with its n_idcs set, the value returned and the flavour split
FlavSplitOfNode(node, st) ==
    [node |-> [node EXCEPT !.traces = st.traces], ret |-> st.con_sum, fs |-> st.fs]

\* DiagramNode::find_flav_split(flav_split)
NodeFindFlavSplit(node, flav_split) ==
    IF node.is_leaf THEN [node |-> node, ret |-> 1, fs |-> flav_split]
    ELSE FlavSplitOfNode(node,
            FlavSplitTraces(node.traces, 1,
                [traces |-> <<>>, con_sum |-> Indeterminate, fs |-> flav_split]))

\* the number of the first pair of flav_split_idcs whose split is n_idcs
FindSplit(idcs, n_idcs) ==
    CHOOSE k \in 1..Len(idcs) :
        /\ idcs[k][1] = n_idcs
        /\ \A j \in 1..(k - 1) : idcs[j][1] # n_idcs

\* the list with pair k left in it
NotErased(idcs, k) == idcs

\* std::list::erase of pair k
Erase(idcs, k) == SubSeq(idcs, 1, k - 1) \o SubSeq(idcs, k + 1, Len(idcs))

RECURSIVE NodeIndex(_, _, _)

\* index: the state after one leg; st = [legs, idcs, sub_idx], r is what the
\* leg's index() returned
IndexAfterLeg(st, leg, r) ==
    [legs |-> Append(st.legs, r.node), idcs |-> r.idcs,
     sub_idx |-> IF leg.is_singlet THEN st.sub_idx ELSE r.idx]

\* index: the loop over the legs of one trace, from leg k on
RECURSIVE IndexLegs(_, _, _)
IndexLegs(legs, k, st) ==
    IF k > Len(legs) THEN st
    ELSE IndexLegs(legs, k + 1,
            IndexAfterLeg(st, legs[k],
                NodeIndex(legs[k], st.idcs,
                          IF legs[k].is_singlet THEN -1 ELSE st.sub_idx)))

\* index: whether a trace takes a flavour index of its own
OwnIndex(node, tr) == (~tr.connected \/ node.is_singlet) /\ tr.n_idcs > 0

\* index: the state in which the legs of a trace are entered
IndexStart(node, tr, st) ==
    IF OwnIndex(node, tr)
    THEN [legs |-> <<>>, idcs |-> Erase(st.idcs, FindSplit(st.idcs, tr.n_idcs)),
          sub_idx |-> st.idcs[FindSplit(st.idcs, tr.n_idcs)][2]]
    ELSE [legs |-> <<>>, idcs |-> st.idcs, sub_idx |-> st.idx]

\* index: the state after one trace; st = [traces, idcs, idx]
IndexAfterTrace(st, tr, t) ==
    [traces |-> Append(st.traces, [tr EXCEPT !.legs = t.legs]),
     idcs |-> t.idcs,
     idx |-> IF tr.connected /\ Len(tr.legs) > 0 THEN t.sub_idx ELSE st.idx]

\* index: the loop over the traces, from trace k on
RECURSIVE IndexTraces(_, _, _)
IndexTraces(node, k, st) ==
    IF k > Len(node.traces) THEN st
    ELSE IndexTraces(node, k + 1,
            IndexAfterTrace(st, node.traces[k],
                IndexLegs(node.traces[k].legs, 1, IndexStart(node, node.traces[k], st))))

\* the indexed node, the remaining list and the value returned
IndexOfNode(node, st) ==
    [node |-> [node EXCEPT !.traces = st.traces], idcs |-> st.idcs, idx |-> st.idx]

\* DiagramNode::index(flav_split_idcs, idx)
NodeIndex(node, idcs, idx) ==
    IF node.is_leaf
    THEN [node |-> [node EXCEPT !.momenta = ShiftLeft(1, idx)], idcs |-> idcs,
          idx |-> idx + 1]
    ELSE IndexOfNode(node, IndexTraces(node, 1,
                                       [traces |-> <<>>, idcs |-> idcs, idx |-> idx]))

RECURSIVE set_momenta(_)

\* set_momenta: the legs of a trace with their momenta set
MomentaOfLegs(legs) == [k \in 1..Len(legs) |-> set_momenta(legs[k])]

\* the bitwise or of the momenta of a sequence of nodes or traces
RECURSIVE OrMomenta(_)
OrMomenta(s) == IF s = <<>> THEN 0 ELSE BitOr(Head(s).momenta, OrMomenta(Tail(s)))

\* set_momenta: a trace with its momenta set
MomentaOfTrace(tr, legs) == [tr EXCEPT !.legs = legs, !.momenta = OrMomenta(legs)]

\* set_momenta: a node with the momenta of its traces set
MomentaOfNode(node, traces) ==
    [node EXCEPT !.traces = traces, !.momenta = OrMomenta(traces)]

\* DiagramNode::set_momenta
set_momenta(node) ==
    IF node.is_leaf THEN node
    ELSE MomentaOfNode(node,
            [k \in 1..Len(node.traces) |->
                MomentaOfTrace(node.traces[k], MomentaOfLegs(node.traces[k].legs))])

\* Propagator::Propagator(momenta, n_mom, src_order, src_prev, dst_order, dst_prev)
Propagator(momenta, n_mom, src_order, src_prev, dst_order, dst_prev) ==
    PropNormalise(RawPropagator(momenta, n_mom, src_order, src_prev, dst_order, dst_prev))

\* Propagator::Propagator(orig, cycl)
PermutedPropagator(orig, cycl) ==
    PropNormalise(RawPropagator(PermuteBits(cycl, orig.momenta, 0, 1), orig.n_mom,
                                orig.src_order, PermuteBits(cycl, orig.src_prev, 0, 1),
                                orig.dst_order, PermuteBits(cycl, orig.dst_prev, 0, 1)))

RECURSIVE NodeLabel(_, _, _, _, _)

\* label: the loop over the legs of a trace, from leg k on; prev is the
\* momenta of the leg before
RECURSIVE LabelLegs(_, _, _, _, _, _)
LabelLegs(legs, k, props, n_idcs, order, prev) ==
    IF k > Len(legs) THEN props
    ELSE LabelLegs(legs, k + 1, NodeLabel(legs[k], props, n_idcs, order, prev),
                   n_idcs, order, legs[k].momenta)

\* label: the momenta before the first leg of a trace
FirstPrev(node, tr, n_idcs) ==
    IF tr.connected THEN BitXor(ShiftLeft(1, n_idcs) - 1, node.momenta)
    ELSE Back(tr.legs).momenta

\* label: the loop over the traces, from trace k on
RECURSIVE LabelTraces(_, _, _, _)
LabelTraces(node, k, props, n_idcs) ==
    IF k > Len(node.traces) THEN props
    ELSE LabelTraces(node, k + 1,
            LabelLegs(node.traces[k].legs, 1, props, n_idcs, node.order,
                      FirstPrev(node, node.traces[k], n_idcs)),
            n_idcs)

\* label: the propagator that joins a node to its parent, pushed after those
\* of its subtree
OwnPropagator(node, props, n_idcs, parent_order, parent_prev) ==
    IF ~node.is_root /\ ~node.is_singlet
    THEN Append(props, Propagator(node.momenta, n_idcs, node.order, 0, parent_order, 0))
    ELSE IF node.is_singlet
    THEN Append(props, Propagator(node.momenta, n_idcs, node.order,
                                  Back(node.traces[node.connect_idx + 1].legs).momenta,
                                  parent_order, parent_prev))
    ELSE props

\* DiagramNode::label(props, n_idcs, parent_order, parent_prev)
NodeLabel(node, props, n_idcs, parent_order, parent_prev) ==
    IF node.is_leaf THEN props
    ELSE OwnPropagator(node, LabelTraces(node, 1, props, n_idcs), n_idcs,
                       parent_order, parent_prev)

\* operator<(Propagator, Propagator)
PropagatorLess(p1, p2) ==
    IF p1.src_order # p2.src_order THEN p1.src_order < p2.src_order
    ELSE IF p1.dst_order # p2.dst_order THEN p1.dst_order < p2.dst_order
    ELSE IF p1.src_prev # p2.src_prev THEN p1.src_prev < p2.src_prev
    ELSE IF p1.dst_prev # p2.dst_prev THEN p1.dst_prev < p2.dst_prev
    ELSE p1.momenta < p2.momenta

\* operator==(Propagator, Propagator): n_mom is not compared
PropagatorEqual(p1, p2) ==
    /\ p1.momenta = p2.momenta
    /\ p1.src_order = p2.src_order
    /\ p1.dst_order = p2.dst_order
    /\ p1.src_prev = p2.src_prev
    /\ p1.dst_prev = p2.dst_prev

\* std::sort of propagators, as the insertion of each element behind the
\* elements that are not greater
RECURSIVE InsertPropagator(_, _)
InsertPropagator(s, p) ==
    IF s = <<>> THEN <<p>>
    ELSE IF PropagatorLess(p, Head(s)) THEN <<p>> \o s
    ELSE <<Head(s)>> \o InsertPropagator(Tail(s), p)

RECURSIVE SortPropagators(_)
SortPropagators(props) ==
    IF props = <<>> THEN <<>>
    ELSE InsertPropagator(SortPropagators(SubSeq(props, 1, Len(props) - 1)), Back(props))

\* std::unique of propagators: the first of every run of equal neighbours
RECURSIVE UniquePropagators(_)
UniquePropagators(props) ==
    IF Len(props) <= 1 THEN props
    ELSE IF PropagatorEqual(props[1], props[2])
         THEN UniquePropagators(<<props[1]>> \o SubSeq(props, 3, Len(props)))
         ELSE <<props[1]>> \o UniquePropagators(Tail(props))

\* Labelling::normalise
LabellingNormalise(props) == UniquePropagators(SortPropagators(props))

\* Labelling::Labelling(root, n_legs), on a root whose momenta are set
Labelling(root, n_legs) ==
    [perm |-> Identity(n_legs),
     props |-> LabellingNormalise(NodeLabel(root, <<>>, n_legs, 0, 0))]

\* Labelling::Labelling(orig, cycl)
PermutedLabelling(orig, cycl) ==
    [perm |-> cycl,
     props |-> LabellingNormalise([k \in 1..Len(orig.props) |->
                                      PermutedPropagator(orig.props[k], cycl)])]

\* std::vector<Propagator> operator<: std::lexicographical_compare
RECURSIVE PropsLess(_, _)
PropsLess(a, b) ==
    IF b = <<>> THEN FALSE
    ELSE IF a = <<>> THEN TRUE
    ELSE IF PropagatorLess(Head(a), Head(b)) THEN TRUE
    ELSE IF PropagatorLess(Head(b), Head(a)) THEN FALSE
    ELSE PropsLess(Tail(a), Tail(b))

\* std::vector<Propagator> operator==
PropsEqual(a, b) ==
    /\ Len(a) = Len(b)
    /\ \A k \in 1..Len(a) : PropagatorEqual(a[k], b[k])

\* operator<(Labelling, Labelling)
LabellingLess(l1, l2) ==
    IF Len(l1.props) # Len(l2.props) THEN Len(l1.props) < Len(l2.props)
    ELSE PropsLess(l1.props, l2.props)

\* operator==(Labelling, Labelling): the permutations are not compared
LabellingEqual(l1, l2) == PropsEqual(l1.props, l2.props)

\* the elements of s in the order of their ranks
SortedByRank(s, rank) ==
    [p \in 1..Len(s) |-> s[CHOOSE i \in 1..Len(s) : rank[i] = p]]

\* the elements of s whose numbers are in kept, in their order
Kept(s, kept) ==
    [p \in 1..Cardinality(kept) |->
        s[CHOOSE k \in kept : Cardinality({j \in kept : j <= k}) = p]]

\* the place of labelling i after std::sort: behind the labellings that are
\* less and those before it that are not greater
LabellingRank(lbls, i) ==
    1 + Cardinality({j \in 1..Len(lbls) :
                        \/ LabellingLess(lbls[j], lbls[i])
                        \/ (j < i /\ ~LabellingLess(lbls[i], lbls[j]))})

\* std::sort of labellings
SortLabellings(lbls) ==
    SortedByRank(lbls, [i \in 1..Len(lbls) |-> LabellingRank(lbls, i)])

\* std::unique of labellings: the first of every run of equal neighbours
UniqueLabellings(lbls) ==
    Kept(lbls, {k \in 1..Len(lbls) : k = 1 \/ ~LabellingEqual(lbls[k - 1], lbls[k])})

\* a Diagram
DiagramOf(order, n_legs, flav_split, singlet_diagram, root, labellings) ==
    [order |-> order, n_legs |-> n_legs, flav_split |-> flav_split,
     singlet_diagram |-> singlet_diagram, root |-> root, labellings |-> labellings]

\* std::sort of a flavour split, left undone
UnsortedFlavSplit(flav_split) == flav_split

\* std::sort(flav_split.begin(), flav_split.end())
SortFlavSplit(flav_split) == SortAscending(flav_split)

\* the root with its n_idcs set and the sorted flavour split found from it
FoundFlavSplit(d, r) ==
    [d EXCEPT !.root = r.node, !.flav_split = SortFlavSplit(r.fs),
              !.n_legs = SeqSum(SortFlavSplit(r.fs))]

\* Diagram::find_flav_split
DiagramFindFlavSplit(d) == FoundFlavSplit(d, NodeFindFlavSplit(d.root, <<>>))

\* the list flav_split_idcs of Diagram::index: every split with the first
\* index of its trace
RECURSIVE FlavSplitIdcs(_, _)
FlavSplitIdcs(flav_split, idx) ==
    IF flav_split = <<>> THEN <<>>
    ELSE << <<Head(flav_split), idx>> >>
            \o FlavSplitIdcs(Tail(flav_split), idx + Head(flav_split))

\* Diagram::index
DiagramIndex(d) ==
    [d EXCEPT !.root = NodeIndex(d.root, FlavSplitIdcs(d.flav_split, 0), -1).node]

\* the states a ZR_Generator passes through from zr on until it is done, at
\* most n of them
RECURSIVE ZRRun(_, _)
ZRRun(zr, n) ==
    IF zr.done \/ n = 0 THEN <<>> ELSE <<zr>> \o ZRRun(ZRInc(zr), n - 1)

\* for(permute::ZR_Generator zr(flav_split); zr; ++zr): all the states the
\* loop passes through, gathered in runs of RunLen states; run is the run
\* gathered last
RunLen == 8

RECURSIVE ZRRuns(_)
ZRRuns(run) ==
    IF run = <<>> THEN <<>> ELSE run \o ZRRuns(ZRRun(ZRInc(Back(run)), RunLen))

\* the loop of Diagram::label: the labellings pushed behind the first
LabelLoop(states, front) ==
    [k \in 1..Len(states) |-> PermutedLabelling(front, states[k].perm)]

\* Diagram::label, for a root rt whose momenta are set
LabelledDiagram(d, rt) ==
    [d EXCEPT !.root = rt,
              !.labellings = UniqueLabellings(SortLabellings(
                    <<Labelling(rt, d.n_legs)>>
                        \o LabelLoop(ZRRuns(ZRRun(ZRNew(d.flav_split), RunLen)),
                                     Labelling(rt, d.n_legs))))]

\* Diagram::label
DiagramLabel(d) == LabelledDiagram(d, set_momenta(d.root))

\* the constructor's body after index(): the one labelling of the root rt,
\* whose momenta are set
FirstLabellingOf(d, rt) ==
    [d EXCEPT !.root = rt, !.labellings = <<Labelling(rt, d.n_legs)>>]

FirstLabelling(d) == FirstLabellingOf(d, set_momenta(d.root))

\* Diagram::Diagram(order, fsplit)
NewDiagram(order, fsplit) ==
    FirstLabelling(DiagramIndex(DiagramOf(order, SeqSum(fsplit), SortFlavSplit(fsplit),
                                          FALSE, RootNode(order, fsplit), <<>>)))

\* DiagramNode::attach(new_vert, split_idx, where, depth, singlet)
RECURSIVE NodeAttach(_, _, _, _, _, _)
NodeAttach(node, new_vert, split_idx, where, depth, singlet) ==
    [node EXCEPT !.traces[where[depth + 1][1] + 1].legs[where[depth + 1][2] + 1] =
        IF depth < Len(where) - 1
        THEN NodeAttach(node.traces[where[depth + 1][1] + 1].legs[where[depth + 1][2] + 1],
                        new_vert, split_idx, where, depth + 1, singlet)
        ELSE VertexNode(new_vert[1], new_vert[2], split_idx, singlet)]

\* Diagram::attach: the copy of the diagram with new_vert attached by trace i
\* of its flavour split
Attached(d, new_vert, i, where, singlet) ==
    DiagramLabel(DiagramIndex(DiagramFindFlavSplit(
        [d EXCEPT !.order = d.order + new_vert[1] - 2,
                  !.root = NodeAttach(d.root, new_vert, i, where, 0, singlet),
                  !.singlet_diagram = IF singlet THEN TRUE ELSE d.singlet_diagram])))

\* Diagram::attach: the loop over the traces of new_vert, from trace i on
RECURSIVE AttachLoop(_, _, _, _, _)
AttachLoop(d, new_vert, where, singlet, i) ==
    IF i >= Len(new_vert[2]) THEN <<>>
    ELSE IF i > 0 /\ new_vert[2][i + 1] = new_vert[2][i]
    THEN AttachLoop(d, new_vert, where, singlet, i + 1)
    ELSE (<<Attached(d, new_vert, i, where, FALSE)>>
            \o (IF singlet /\ new_vert[2][i + 1] > 2
                 THEN <<Attached(d, new_vert, i, where, TRUE)>>
                 ELSE <<>>))
         \o AttachLoop(d, new_vert, where, singlet, i + 1)

\* Diagram::attach(new_vert, where, diagrs, singlet): the diagrams pushed to
\* diagrs
Attach(d, new_vert, where, singlet) == AttachLoop(d, new_vert, where, singlet, 0)

\* bitwise::unshift
RECURSIVE UnshiftLoop(_, _)
UnshiftLoop(b, unshifted) ==
    IF b = 0 THEN unshifted ELSE UnshiftLoop(ShiftRight(b, 1), unshifted + 1)

unshift(shifted) == UnshiftLoop(ShiftRight(shifted, 1), 0)

\* DiagramNode::extend at a leaf: the loop over new_verts, from vertex k on
RECURSIVE ExtendLeaf(_, _, _, _, _)
ExtendLeaf(original, new_verts, k, where, singlet) ==
    IF k > Len(new_verts) THEN <<>>
    ELSE Attach(original, new_verts[k], where, singlet /\ new_verts[k][1] > 2)
            \o ExtendLeaf(original, new_verts, k + 1, where, singlet)

RECURSIVE NodeExtend(_, _, _, _, _, _)

\* DiagramNode::extend: the loop over the legs of trace t, from leg l on
RECURSIVE ExtendLegs(_, _, _, _, _, _, _, _)
ExtendLegs(node, t, l, new_verts, idcs, traversal, original, singlet) ==
    IF l >= Len(node.traces[t + 1].legs) THEN <<>>
    ELSE NodeExtend(node.traces[t + 1].legs[l + 1], new_verts, idcs,
                    Append(traversal, <<t, l>>), original,
                    singlet /\ (~node.traces[t + 1].legs[l + 1].is_leaf \/ node.order > 2))
            \o ExtendLegs(node, t, l + 1, new_verts, idcs, traversal, original, singlet)

\* DiagramNode::extend: the loop over the traces, from trace t on
RECURSIVE ExtendTraces(_, _, _, _, _, _, _)
ExtendTraces(node, t, new_verts, idcs, traversal, original, singlet) ==
    IF t >= Len(node.traces) THEN <<>>
    ELSE ExtendLegs(node, t, 0, new_verts, idcs, traversal, original, singlet)
            \o ExtendTraces(node, t + 1, new_verts, idcs, traversal, original, singlet)

\* DiagramNode::extend(diagrs, new_verts, idcs, traversal, original, singlet):
\* the diagrams pushed to diagrs
NodeExtend(node, new_verts, idcs, traversal, original, singlet) ==
    IF node.is_leaf
    THEN IF unshift(node.momenta) \notin idcs THEN <<>>
         ELSE ExtendLeaf(original, new_verts, 1, traversal, singlet)
    ELSE ExtendTraces(node, 0, new_verts, idcs, traversal, original, singlet)

\* the first loop of Diagram::extend, from trace i on: idx has been advanced
\* by flav_split[i] after i++, so from the third trace on it is not the first
\* index of trace i, but it lies inside that trace.  (The last advance reads
\* flav_split[flav_split.size()]; the loop ends without using the sum.)
RECURSIVE IdxReps(_, _, _, _)
IdxReps(flav_split, i, idx, idx_reps) ==
    IF i >= Len(flav_split) THEN idx_reps
    ELSE IdxReps(flav_split, i + 1,
                 IF i + 1 < Len(flav_split) THEN idx + flav_split[i + 2] ELSE idx,
                 IF flav_split[i + 1] # flav_split[i] THEN Append(idx_reps, idx)
                 ELSE idx_reps)

\* the positions of flav_split the first loop of Diagram::extend reads, from
\* trace i on: the body reads [i] and [i-1], and the increment reads [i]
\* after i++, also when the test that follows ends the loop
RECURSIVE IdxRepsReads(_, _, _)
IdxRepsReads(flav_split, i, reads) ==
    IF i >= Len(flav_split) THEN reads
    ELSE IdxRepsReads(flav_split, i + 1, reads \cup {i, i - 1} \cup {i + 1})

\* the second loop of Diagram::extend: where a representative index stands
\* in some labelling; Labelling::index_locations is perm.inverse()
RepLocs(labellings, idx_reps) ==
    {Inverse(labellings[k].perm)[idx_reps[r]] :
        k \in 1..Len(labellings), r \in 1..Len(idx_reps)}

\* extend that attaches nothing
ExtendNone(d, new_verts, singlets) == <<>>

\* Diagram::extend(new_verts, singlets)
Extend(d, new_verts, singlets) ==
    NodeExtend(d.root, new_verts,
               RepLocs(d.labellings, IdxReps(d.flav_split, 1, d.flav_split[1], <<0>>)),
               <<>>, d, singlets)

\* DiagramNode::is_zero
RECURSIVE NodeIsZero(_)
NodeIsZero(node) ==
    IF node.is_leaf THEN FALSE
    ELSE \/ /\ Len(node.traces[1].legs) = 1
            /\ node.is_singlet # node.traces[1].legs[1].is_singlet
         \/ \E t \in 1..Len(node.traces) :
               \/ /\ Len(node.traces[t].legs) = 2
                  /\ node.traces[t].legs[1].is_singlet # node.traces[t].legs[2].is_singlet
               \/ \E l \in 1..Len(node.traces[t].legs) : NodeIsZero(node.traces[t].legs[l])

\* Diagram::is_zero
IsZero(d) ==
    IF d.flav_split[1] = 1 THEN TRUE
    ELSE IF d.order < 6 THEN FALSE
    ELSE NodeIsZero(d.root)

\* std::vector<int> operator<
RECURSIVE IntsLess(_, _)
IntsLess(a, b) ==
    IF b = <<>> THEN FALSE
    ELSE IF a = <<>> THEN TRUE
    ELSE IF Head(a) < Head(b) THEN TRUE
    ELSE IF Head(b) < Head(a) THEN FALSE
    ELSE IntsLess(Tail(a), Tail(b))

\* the positions at which two lists of labellings differ
Differing(a, b) ==
    {k \in 1..Len(a) : k <= Len(b) /\ (LabellingLess(a[k], b[k]) \/ LabellingLess(b[k], a[k]))}

\* the least number of a set
Least(S) == CHOOSE k \in S : \A j \in S : k <= j

\* std::vector<Labelling> operator<: std::lexicographical_compare
LabellingsLess(a, b) ==
    IF Differing(a, b) = {} THEN Len(a) < Len(b)
    ELSE LabellingLess(a[Least(Differing(a, b))], b[Least(Differing(a, b))])

\* std::vector<Labelling> operator==
LabellingsEqual(a, b) ==
    /\ Len(a) = Len(b)
    /\ \A k \in 1..Len(a) : LabellingEqual(a[k], b[k])

\* operator<(Diagram, Diagram)
DiagramLess(d1, d2) ==
    IF d1.n_legs # d2.n_legs THEN d1.n_legs < d2.n_legs
    ELSE IF d1.order # d2.order THEN d1.order < d2.order
    ELSE IF d1.flav_split # d2.flav_split THEN IntsLess(d2.flav_split, d1.flav_split)
    ELSE LabellingsLess(d1.labellings, d2.labellings)

\* operator==(Diagram, Diagram): the trees are not compared
DiagramEqual(d1, d2) ==
    /\ d1.n_legs = d2.n_legs
    /\ d1.order = d2.order
    /\ d1.flav_split = d2.flav_split
    /\ LabellingsEqual(d1.labellings, d2.labellings)

\* the place of diagram i after std::sort
DiagramRank(diagrs, i) ==
    1 + Cardinality({j \in 1..Len(diagrs) :
                        \/ DiagramLess(diagrs[j], diagrs[i])
                        \/ (j < i /\ ~DiagramLess(diagrs[i], diagrs[j]))})

\* std::sort of diagrams
SortDiagrams(diagrs) ==
    SortedByRank(diagrs, [i \in 1..Len(diagrs) |-> DiagramRank(diagrs, i)])

\* std::unique of diagrams: the first of every run of equal neighbours
UniqueDiagrams(diagrs) ==
    Kept(diagrs, {k \in 1..Len(diagrs) : k = 1 \/ ~DiagramEqual(diagrs[k - 1], diagrs[k])})

\* the single-vertex diagrams that seed generate
Seeds(order, n_legs) ==
    [k \in 1..Len(ValidFlavSplits(order, n_legs, 2)) |->
        NewDiagram(order, ValidFlavSplits(order, n_legs, 2)[k])]

\* generate: the loop over the diagrams of one recursive call, from k on
RECURSIVE ExtendAll(_, _, _, _)
ExtendAll(base, k, new_verts, singlets) ==
    IF k > Len(base) THEN <<>>
    ELSE Extend(base[k], new_verts, singlets) \o ExtendAll(base, k + 1, new_verts, singlets)

\* generate: n_min
NMin(order, n_legs, o) == IF n_legs <= 8 \/ 2 * o # 2 + order THEN 4 ELSE n_legs \div 2

\* generate: the loop over n, from n down; inner[<<o, n>>] is the list the
\* recursive call generate(o, n, singlets, false) returns
RECURSIVE ExtendLegCounts(_, _, _, _, _, _)
ExtendLegCounts(inner, order, n_legs, singlets, o, n) ==
    IF n < NMin(order, n_legs, o) THEN <<>>
    ELSE ExtendAll(inner[<<o, n>>], 1, ValidVertices(2 + order - o, 2 + n_legs - n),
                   singlets /\ o > 2 /\ order > 4)
            \o ExtendLegCounts(inner, order, n_legs, singlets, o, n - 2)

\* generate: the loop over o, from o down
RECURSIVE ExtendOrders(_, _, _, _, _)
ExtendOrders(inner, order, n_legs, singlets, o) ==
    IF ~(o > order \div 2) THEN <<>>
    ELSE ExtendLegCounts(inner, order, n_legs, singlets, o, n_legs - 2)
            \o ExtendOrders(inner, order, n_legs, singlets, o - 2)

\* generate without the removal of the identically zero diagrams
WithZero(diagrs) == diagrs

\* generate: the removal of the identically zero diagrams
Nonzero(diagrs) == Kept(diagrs, {k \in 1..Len(diagrs) : ~IsZero(diagrs[k])})

\* the recursive calls one call of generate makes
RecursiveCalls(order, n_legs) ==
    {<<o, n>> \in (1..order) \X (4..n_legs) :
        /\ o > order \div 2 /\ (order - o) % 2 = 0
        /\ n >= NMin(order, n_legs, o) /\ n <= n_legs - 2 /\ (n_legs - n) % 2 = 0}

\* generate: the sorted list without redundant diagrams
SortedUnique(diagrs) == UniqueDiagrams(SortDiagrams(diagrs))

\* generate: diagrs after std::sort and std::unique, given the lists the
\* recursive calls return
Diagrs(inner, order, n_legs, singlets) ==
    SortedUnique(Seeds(order, n_legs) \o ExtendOrders(inner, order, n_legs, singlets, order))

\* generate: the list returned
Returned(diagrs, traceless_generators) ==
    IF traceless_generators THEN Nonzero(diagrs) ELSE diagrs

(***************************************************************************)
(* Diagram::generate.  The function is pure, so every recursive call       *)
(* generate(o, n, singlets, false) is evaluated once and its list kept in  *)
(* dgCalls; a call returns when all the calls it makes have returned.      *)
(***************************************************************************)
\* the recursive calls below generate(order, n_legs, ...), at any depth
RECURSIVE AllCalls(_, _)
AllCalls(order, n_legs) ==
    RecursiveCalls(order, n_legs)
        \cup UNION {AllCalls(c[1], c[2]) : c \in RecursiveCalls(order, n_legs)}

\* the lists the recursive calls have returned
InnerLists == [c \in DOMAIN dgCalls |-> dgCalls[c].returned]

GenerateInit ==
    /\ GenIdle /\ PermIdle /\ CycIdle /\ CmpIdle /\ SymIdle /\ RepIdle /\ SrtIdle /\ VfsIdle /\ PropIdle /\ BitsIdle /\ DiagramIdle /\ WhenceIdle /\ FspIdle /\ CycleIdle
    /\ dgOrder \in {o \in 2..MaxGenOrder : o % 2 = 0}
    /\ dgLegs \in {n \in 4..MaxGenLegs : n % 2 = 0}
    /\ dgSinglets \in BOOLEAN
    /\ dgTraceless \in BOOLEAN
    /\ dgCalls = <<>>
    /\ dgDiagrs = <<>>
    /\ dgReturned = <<>>
    /\ dgDone = FALSE

\* what a recursive call leaves: diagrs, and the list returned with
\* traceless_generators = false
CallReturns(diagrs) == [diagrs |-> diagrs, returned |-> Returned(diagrs, FALSE)]

\* the recursive call generate(o, n, singlets, false) returns
GenerateInner(o, n) ==
    /\ ~dgDone
    /\ <<o, n>> \in AllCalls(dgOrder, dgLegs) \ DOMAIN dgCalls
    /\ RecursiveCalls(o, n) \subseteq DOMAIN dgCalls
    /\ dgCalls' = [c \in DOMAIN dgCalls \cup {<<o, n>>} |->
                      IF c = <<o, n>>
                      THEN CallReturns(Diagrs(InnerLists, o, n, dgSinglets))
                      ELSE dgCalls[c]]
    /\ UNCHANGED <<dgOrder, dgLegs, dgSinglets, dgTraceless, dgDiagrs, dgReturned, dgDone>>
    /\ UNCHANGED <<genvars, permvars, cycvars, cmpvars, symvars, repvars, srtvars, vfsvars, propvars, bitsvars, diagvars, whvars, fspvars, cyclvars>>

\* the outermost call generate(order, n_legs, singlets, traceless_generators) returns
GenerateOuter ==
    /\ ~dgDone
    /\ RecursiveCalls(dgOrder, dgLegs) \subseteq DOMAIN dgCalls
    /\ dgDiagrs' = Diagrs(InnerLists, dgOrder, dgLegs, dgSinglets)
    /\ dgReturned' = Returned(dgDiagrs', dgTraceless)
    /\ dgDone' = TRUE
    /\ UNCHANGED <<dgOrder, dgLegs, dgSinglets, dgTraceless, dgCalls>>
    /\ UNCHANGED <<genvars, permvars, cycvars, cmpvars, symvars, repvars, srtvars, vfsvars, propvars, bitsvars, diagvars, whvars, fspvars, cyclvars>>

GenerateNext ==
    \/ \E o \in 2..MaxGenOrder, n \in 4..MaxGenLegs : GenerateInner(o, n)
    \/ GenerateOuter

SpecGenerate == GenerateInit /\ [][GenerateNext]_vars

(***************************************************************************)
(* Diagrams built step by step: the constructor makes a single-vertex      *)
(* diagram of a flavour split valid_flav_splits lists, and every step      *)
(* replaces the diagram by one of those extend returns for the vertices    *)
(* valid_vertices lists, as generate does.                                 *)
(***************************************************************************)
\* the elements of a std::vector
Elements(list) == {list[k] : k \in 1..Len(list)}

DiagramInit ==
    /\ GenIdle /\ PermIdle /\ CycIdle /\ CmpIdle /\ SymIdle /\ RepIdle /\ SrtIdle /\ VfsIdle /\ PropIdle /\ BitsIdle /\ GenerateIdle /\ WhenceIdle /\ FspIdle /\ CycleIdle
    /\ \E order \in {o \in 2..MaxDiagOrder : o % 2 = 0},
          n_legs \in {n \in 4..MaxDiagLegs : n % 2 = 0} :
          \E fsplit \in Elements(ValidFlavSplits(order, n_legs, 2)) :
              dDiagram = NewDiagram(order, fsplit)
    /\ dSteps = 0

\* dDiagram.extend(valid_vertices(order, n_legs), singlets), and one of the
\* diagrams it returns
ExtendDiagram(order, n_legs, singlets) ==
    /\ dDiagram.order + order - 2 <= MaxDiagOrder
    /\ dDiagram.n_legs + n_legs - 2 <= MaxDiagLegs
    /\ dDiagram' \in Elements(Extend(dDiagram, ValidVertices(order, n_legs), singlets))
    /\ dSteps' = dSteps + 1
    /\ UNCHANGED <<genvars, permvars, cycvars, cmpvars, symvars, repvars, srtvars, vfsvars, propvars, bitsvars, dgvars, whvars, fspvars, cyclvars>>

DiagramNext ==
    \E order \in {o \in 2..MaxDiagOrder : o % 2 = 0},
       n_legs \in {n \in 4..MaxDiagLegs : n % 2 = 0}, singlets \in BOOLEAN :
        ExtendDiagram(order, n_legs, singlets)

SpecDiagram == DiagramInit /\ [][DiagramNext]_vars

(***************************************************************************)
(* info_sort with whence and rank, on items ordered by a key.  _merge      *)
(* writes wb[k] = wa[i] wherever it writes lb[k] = la[i], and wa and wb    *)
(* both start as 0, 1, ..., as la and lb both start as the list; so an     *)
(* item and its entry of whence travel together, and the item is modelled  *)
(* as the pair of its key and its entry of whence.                         *)
(***************************************************************************)
\* the list with wa[i] = i beside item i
WithWhence(list) == [i \in DOMAIN list |-> <<list[i], i>>]

\* COMPARE(a, b) on the keys
KeyCompare(a, b) == IF a[1] < b[1] THEN -1 ELSE IF a[1] > b[1] THEN 1 ELSE 0

\* what compare returns on the items of list; no comparison reads out of bounds
KeyCompareTable(list) ==
    [p \in Pairs(list) |-> [val |-> KeyCompare(p[1], p[2]), oob |-> FALSE]]

\* info_sort(list, nitems, size, compare, whence, NULL, rank, NULL)
InfoSortWhence(list, nitems) ==
    InfoSort(KeyCompareTable(WithWhence(list)), WithWhence(list), nitems)

WhenceInit ==
    /\ GenIdle /\ PermIdle /\ CycIdle /\ CmpIdle /\ SymIdle /\ RepIdle /\ SrtIdle /\ VfsIdle /\ PropIdle /\ BitsIdle /\ GenerateIdle /\ DiagramIdle /\ FspIdle /\ CycleIdle
    /\ \E nitems \in 1..MaxSortItems : whList \in [0..(nitems - 1) -> 0..MaxSortKey]
    /\ whSorted = <<>>
    /\ whWhence = <<>>
    /\ whRank = <<>>

\* the call of info_sort
CallInfoSort ==
    /\ whSorted = <<>>
    /\ whSorted' = [k \in DOMAIN whList |-> InfoSortWhence(whList, Cardinality(DOMAIN whList)).lb[k][1]]
    /\ whWhence' = [k \in DOMAIN whList |-> InfoSortWhence(whList, Cardinality(DOMAIN whList)).lb[k][2]]
    /\ whRank' = InfoSortWhence(whList, Cardinality(DOMAIN whList)).rank
    /\ UNCHANGED whList
    /\ UNCHANGED <<genvars, permvars, cycvars, cmpvars, symvars, repvars, srtvars, vfsvars, propvars, bitsvars, dgvars, diagvars, fspvars, cyclvars>>

WhenceNext == CallInfoSort

SpecWhence == WhenceInit /\ [][WhenceNext]_vars

(***************************************************************************)
(* _split_poly (src/old/src/diagram.c) splits a polygon in two that a      *)
(* flavour split joins.                                                    *)
(***************************************************************************)
\* #define CARRIES_FLAVIDX(e) (e.type == EXT_LEG || e.type == PROPGTR)
CARRIES_FLAVIDX(e) == e.type = EXT_LEG \/ e.type = PROPGTR

\* l_degen and r_degen
LDegen(poly, i, j) ==
    Cardinality({k \in i..(j - 1) : CARRIES_FLAVIDX(poly.edges[k])})

RDegen(poly, i, j) ==
    Cardinality({k \in j..(i + poly.ngons - 1) :
                    CARRIES_FLAVIDX(poly.edges[k % poly.ngons])})

\* (j-i)%2 ? 2 : 1
BudgetSpent(i, j) == IF (j - i) % 2 # 0 THEN 2 ELSE 1

\* the pairs i, j the loops of _split_poly do not skip
SplitsAt(poly, i, j) ==
    /\ poly.split_budget # 0 /\ poly.ngons >= 4
    /\ i \in 0..(poly.ngons \div 2 - 1)
    /\ j \in (i + 2)..(poly.ngons - 1)
    /\ ~((j - i) % 2 # 0 /\ poly.split_budget # 2)
    /\ ~(j = poly.ngons - 1 /\ i = 0)
    /\ LDegen(poly, i, j) >= 2
    /\ RDegen(poly, i, j) >= 2

\* left and right as _split_poly fills them
LeftPoly(poly, i, j, npolys) ==
    [ngons |-> (j - i) + 1,
     order |-> poly.order,
     split_budget |-> IF (j - i) + 1 > poly.ngons - (j - i) + 1
                      THEN poly.split_budget - BudgetSpent(i, j) ELSE 0,
     gons |-> [k \in 0..(j - i) |->
                 IF k < j - i THEN poly.gons[(k + i) % poly.ngons] ELSE poly.gons[j]],
     edges |-> [k \in 0..(j - i) |->
                  IF k < j - i THEN poly.edges[(k + i) % poly.ngons]
                  ELSE PolyPtr(npolys, FLSPLIT)]]

RightPoly(poly, i, j, p_idx) ==
    [ngons |-> poly.ngons - (j - i) + 1,
     order |-> poly.order,
     split_budget |-> IF (j - i) + 1 > poly.ngons - (j - i) + 1
                      THEN 0 ELSE poly.split_budget - BudgetSpent(i, j),
     gons |-> [k \in 0..(poly.ngons - (j - i)) |->
                 IF k < poly.ngons - (j - i) THEN poly.gons[(k + j) % poly.ngons]
                 ELSE poly.gons[i]],
     edges |-> [k \in 0..(poly.ngons - (j - i)) |->
                  IF k < poly.ngons - (j - i) THEN poly.edges[(k + j) % poly.ngons]
                  ELSE PolyPtr(p_idx, FLSPLIT)]]

\* for(oi = 0; oi < other->ngons; oi++) if(... type and idx == p_idx){ idx =
\* base->npolys; break; }
Repointed(other, type, p_idx, npolys) ==
    IF \E oi \in 0..(other.ngons - 1) :
          other.edges[oi].type = type /\ other.edges[oi].idx = p_idx
    THEN [other EXCEPT
            !.edges[CHOOSE oi \in 0..(other.ngons - 1) :
                       /\ other.edges[oi].type = type /\ other.edges[oi].idx = p_idx
                       /\ \A o2 \in 0..(oi - 1) :
                             ~(other.edges[o2].type = type
                               /\ other.edges[o2].idx = p_idx)].idx = npolys]
    ELSE other

\* the loop that fills right, from k on, count being right->ngons - 1: the
\* polygons behind right's edges point to right, and so do the diagram's
\* edges (at the index kj)
RECURSIVE RightLoop(_, _, _, _, _, _, _)
RightLoop(split, poly, p_idx, j, npolys, count, k) ==
    IF k >= count THEN split
    ELSE IF poly.edges[(k + j) % poly.ngons].type # EXT_LEG
    THEN RightLoop([split EXCEPT
                      !.polys[poly.edges[(k + j) % poly.ngons].idx] =
                          Repointed(@, poly.edges[(k + j) % poly.ngons].type,
                                    p_idx, npolys)],
                   poly, p_idx, j, npolys, count, k + 1)
    ELSE RightLoop([split EXCEPT !.edges[(k + j) % poly.ngons] = npolys],
                   poly, p_idx, j, npolys, count, k + 1)

\* split as _split_poly(base, p_idx) builds it for one i and j, up to the
\* representation
SplitPoly(base, p_idx, i, j) ==
    RightLoop([ngons |-> base.ngons,
               order |-> base.order,
               gons |-> base.gons,
               gon_idx |-> base.gon_idx,
               edges |-> base.edges,
               npolys |-> base.npolys + 1,
               polys |-> [p \in 0..base.npolys |->
                            IF p = p_idx
                            THEN LeftPoly(base.polys[p_idx], i, j, base.npolys)
                            ELSE IF p = base.npolys
                            THEN RightPoly(base.polys[p_idx], i, j, p_idx)
                            ELSE base.polys[p]]],
              base.polys[p_idx], p_idx, j, base.npolys,
              base.polys[p_idx].ngons - (j - i), 0)

(***************************************************************************)
(* represent_diagram step by step (src/unnamed/part_009): the calls of     *)
(* represent_part and represent_fsp_con in progress are the frames of      *)
(* fspStack, the innermost last.  A frame of represent_part holds its      *)
(* master array (as a set) as it was handed in (entry) and as it is now    *)
(* (master), its poly_reps, and the position p, g of init_part's           *)
(* traversal; a frame of represent_fsp_con holds visited, the position of  *)
(* its traversal, and nreps.  The master array of represent_fsp_con is the *)
(* one of the represent_part that called it.  The cycreps that are built   *)
(* are those of RepresentPart and play no part in the flow of control.     *)
(***************************************************************************)
\* represent_part(diagr, poly_reps, p_idx, master) has been called
PartFrame(p_idx, poly_reps, master) ==
    [kind |-> "part", p |-> p_idx, g |-> 0, p_mark |-> p_idx,
     master |-> master, entry |-> master, poly_reps |-> poly_reps \cup {p_idx},
     visited |-> {}, nreps |-> 0, pc |-> "con"]

\* represent_fsp_con(diagr, p_idx, master) has been called
ConFrame(p_idx) ==
    [kind |-> "con", p |-> p_idx, g |-> 0, p_mark |-> p_idx,
     master |-> {}, entry |-> {}, poly_reps |-> {},
     visited |-> {p_idx}, nreps |-> 0, pc |-> "visit"]

Top == fspStack[Len(fspStack)]

Popped == SubSeq(fspStack, 1, Len(fspStack) - 1)

\* the frames of represent_part among the first n frames
PartFramesIn(stack) == {k \in 1..Len(stack) : stack[k].kind = "part"}

\* no polygon taken for a master
NeverMaster(master, p_idx) == FALSE

\* if(master[p_idx])
IsMaster(master, p_idx) == p_idx \in master

\* one step of represent_fsp_con's traversal: across a flavour split to the
\* same gon of the polygon behind it, otherwise on to the next gon
ConStepPoly(d, p_idx, g_idx) ==
    IF d.polys[p_idx].edges[g_idx].type = FLSPLIT
    THEN d.polys[p_idx].edges[g_idx].idx
    ELSE p_idx

ConStepGon(d, p_idx, g_idx) ==
    IF d.polys[p_idx].edges[g_idx].type = FLSPLIT
    THEN FindGon(d.polys[ConStepPoly(d, p_idx, g_idx)], d.polys[p_idx].gons[g_idx])
    ELSE (g_idx + 1) % d.polys[p_idx].ngons

HasFlavourSplit(d) ==
    \E p \in 0..(d.npolys - 1) : \E g \in 0..(d.polys[p].ngons - 1) :
        d.polys[p].edges[g].type = FLSPLIT

FspInit ==
    /\ GenIdle /\ PermIdle /\ CycIdle /\ CmpIdle /\ SymIdle /\ RepIdle /\ SrtIdle /\ VfsIdle /\ PropIdle /\ BitsIdle /\ GenerateIdle /\ DiagramIdle /\ WhenceIdle /\ CycleIdle
    /\ \E ngons \in 3..MaxFspGons, order \in 0..MaxFspOrder :
          fspDiagr = MakeContactDiagram(ngons, order)
    /\ fspStarted = FALSE
    /\ fspPIdx = 0
    /\ fspPolyReps = {}
    /\ fspStack = <<>>
    /\ fspDepth = 0
    /\ fspNulls = 0
    /\ fspDone = FALSE

FspOthers ==
    <<genvars, permvars, cycvars, cmpvars, symvars, repvars, srtvars, vfsvars, propvars, bitsvars, dgvars, diagvars, whvars, cyclvars>>

\* grow_diagrams: fspDiagr = _cut_edge(fspDiagr, edge, ngons, order), before
\* any split
FspCut ==
    /\ ~fspStarted
    /\ ~HasFlavourSplit(fspDiagr)
    /\ fspDiagr.npolys < MaxFspPolys
    /\ \E edge \in 0..(fspDiagr.ngons - 1), ngons \in 1..MaxCutGons,
          order \in 0..MaxFspOrder :
          /\ fspDiagr.ngons + ngons <= MaxFspGons
          /\ fspDiagr' = CutEdge(fspDiagr, edge, ngons, order)
    /\ UNCHANGED <<fspStarted, fspPIdx, fspPolyReps, fspStack, fspDepth,
                   fspNulls, fspDone, FspOthers>>

\* split_diagrams: fspDiagr is one of the diagrams of _split_poly(fspDiagr, p_idx)
FspSplit ==
    /\ ~fspStarted
    /\ fspDiagr.npolys < MaxFspPolys
    /\ \E p_idx \in 0..(fspDiagr.npolys - 1) :
          \E i \in 0..(fspDiagr.polys[p_idx].ngons - 1),
             j \in 0..(fspDiagr.polys[p_idx].ngons - 1) :
             /\ SplitsAt(fspDiagr.polys[p_idx], i, j)
             /\ fspDiagr' = SplitPoly(fspDiagr, p_idx, i, j)
    /\ UNCHANGED <<fspStarted, fspPIdx, fspPolyReps, fspStack, fspDepth,
                   fspNulls, fspDone, FspOthers>>

\* represent_diagram's loop: if(!crep->poly_reps[p_idx]) fails
SkipPolygon ==
    /\ ~fspDone /\ fspStack = <<>>
    /\ fspPIdx < fspDiagr.npolys
    /\ fspPIdx \in fspPolyReps
    /\ fspPIdx' = fspPIdx + 1
    /\ fspStarted' = TRUE
    /\ UNCHANGED <<fspDiagr, fspPolyReps, fspStack, fspDepth, fspNulls, fspDone,
                   FspOthers>>

\* represent_diagram's loop: represent_part(diagr, crep->poly_reps, p_idx,
\* NULL) is called, where master = scalloc(...)
CallMasterPart ==
    /\ ~fspDone /\ fspStack = <<>>
    /\ fspPIdx < fspDiagr.npolys
    /\ fspPIdx \notin fspPolyReps
    /\ fspStack' = <<PartFrame(fspPIdx, fspPolyReps, {})>>
    /\ fspDepth' = IF fspDepth < 1 THEN 1 ELSE fspDepth
    /\ fspStarted' = TRUE
    /\ UNCHANGED <<fspDiagr, fspPIdx, fspPolyReps, fspNulls, fspDone, FspOthers>>

\* represent_diagram's loop is over; the parts are sorted and crep returned
ReturnDiagram ==
    /\ ~fspDone /\ fspStack = <<>>
    /\ fspPIdx >= fspDiagr.npolys
    /\ fspDone' = TRUE
    /\ fspStarted' = TRUE
    /\ UNCHANGED <<fspDiagr, fspPIdx, fspPolyReps, fspStack, fspDepth, fspNulls,
                   FspOthers>>

\* init_part: part->fsp_cons[p_idx] = represent_fsp_con(diagr, p_idx, master)
\* is called, and sets master[p_idx] = TRUE
CallFspCon ==
    /\ fspStack # <<>>
    /\ Top.kind = "part" /\ Top.pc = "con"
    /\ fspStack' = Append([fspStack EXCEPT
                             ![Len(fspStack)].master = @ \cup {Top.p},
                             ![Len(fspStack)].pc = "step"],
                          ConFrame(Top.p))
    /\ UNCHANGED <<fspDiagr, fspStarted, fspPIdx, fspPolyReps, fspDepth, fspNulls,
                   fspDone, FspOthers>>

\* init_part: one turn of its loop; a polygon entered across a propagator
\* for the first time gets poly_reps set and its connections represented
InitPartStep ==
    /\ fspStack # <<>>
    /\ Top.kind = "part" /\ Top.pc = "step"
    /\ fspStack' =
          [fspStack EXCEPT ![Len(fspStack)] =
              [Top EXCEPT
                 !.p = StepPoly(fspDiagr, Top.p, Top.g),
                 !.g = StepGon(fspDiagr, Top.p, Top.g),
                 !.poly_reps = @ \cup {StepPoly(fspDiagr, Top.p, Top.g)},
                 !.pc = IF StepPoly(fspDiagr, Top.p, Top.g) \notin Top.poly_reps
                        THEN "con"
                        ELSE IF /\ StepPoly(fspDiagr, Top.p, Top.g) = Top.p_mark
                                /\ StepGon(fspDiagr, Top.p, Top.g) = 0
                        THEN "fill" ELSE "step"]]
    /\ UNCHANGED <<fspDiagr, fspStarted, fspPIdx, fspPolyReps, fspDepth, fspNulls,
                   fspDone, FspOthers>>

\* represent_part called by represent_diagram: fill_part, normalise_cycrep,
\* return part; crep->nreps++
ReturnMasterPart ==
    /\ Len(fspStack) = 1
    /\ Top.kind = "part" /\ Top.pc = "fill"
    /\ fspStack' = <<>>
    /\ fspPolyReps' = Top.poly_reps
    /\ fspPIdx' = fspPIdx + 1
    /\ UNCHANGED <<fspDiagr, fspStarted, fspDepth, fspNulls, fspDone, FspOthers>>

\* represent_part called by represent_fsp_con: fill_part, normalise_cycrep,
\* return part; con->nreps++; visited[p_idx] = TRUE
ReturnSlavePart ==
    /\ Len(fspStack) > 1
    /\ Top.kind = "part" /\ Top.pc = "fill"
    /\ fspStack' =
          [Popped EXCEPT ![Len(fspStack) - 1] =
              [@ EXCEPT !.nreps = @ + 1, !.visited = @ \cup {Popped[Len(fspStack) - 1].p},
                        !.pc = "step"]]
    /\ UNCHANGED <<fspDiagr, fspStarted, fspPIdx, fspPolyReps, fspDepth, fspNulls,
                   fspDone, FspOthers>>

\* represent_fsp_con: if(!visited[p_idx]) fails
ConSeen ==
    /\ fspStack # <<>>
    /\ Top.kind = "con" /\ Top.pc = "visit"
    /\ Top.p \in Top.visited
    /\ fspStack' = [fspStack EXCEPT ![Len(fspStack)].pc = "step"]
    /\ UNCHANGED <<fspDiagr, fspStarted, fspPIdx, fspPolyReps, fspDepth, fspNulls,
                   fspDone, FspOthers>>

\* represent_fsp_con: the polygon is a master; con->reps[con->nreps] = NULL
ConPlaceholder ==
    /\ fspStack # <<>>
    /\ Top.kind = "con" /\ Top.pc = "visit"
    /\ Top.p \notin Top.visited
    /\ IsMaster(fspStack[Len(fspStack) - 1].master, Top.p)
    /\ fspStack' = [fspStack EXCEPT ![Len(fspStack)] =
                       [Top EXCEPT !.nreps = @ + 1, !.visited = @ \cup {Top.p},
                                   !.pc = "step"]]
    /\ fspNulls' = fspNulls + 1
    /\ UNCHANGED <<fspDiagr, fspStarted, fspPIdx, fspPolyReps, fspDepth, fspDone,
                   FspOthers>>

\* represent_fsp_con: memcpy(m, master, ...); represent_part(diagr, NULL,
\* p_idx, m) is called, where poly_reps = scalloc(...)
ConRecurse ==
    /\ fspStack # <<>>
    /\ Top.kind = "con" /\ Top.pc = "visit"
    /\ Top.p \notin Top.visited
    /\ ~IsMaster(fspStack[Len(fspStack) - 1].master, Top.p)
    /\ fspStack' = Append(fspStack,
                          PartFrame(Top.p, {}, fspStack[Len(fspStack) - 1].master))
    /\ fspDepth' = IF Cardinality(PartFramesIn(fspStack)) + 1 > fspDepth
                   THEN Cardinality(PartFramesIn(fspStack)) + 1 ELSE fspDepth
    /\ UNCHANGED <<fspDiagr, fspStarted, fspPIdx, fspPolyReps, fspNulls, fspDone,
                   FspOthers>>

\* represent_fsp_con: the switch, short of the point of origin
ConStep ==
    /\ fspStack # <<>>
    /\ Top.kind = "con" /\ Top.pc = "step"
    /\ ~(/\ ConStepPoly(fspDiagr, Top.p, Top.g) = Top.p_mark
         /\ ConStepGon(fspDiagr, Top.p, Top.g) = 0)
    /\ fspStack' = [fspStack EXCEPT ![Len(fspStack)] =
                       [Top EXCEPT !.p = ConStepPoly(fspDiagr, Top.p, Top.g),
                                   !.g = ConStepGon(fspDiagr, Top.p, Top.g),
                                   !.pc = "visit"]]
    /\ UNCHANGED <<fspDiagr, fspStarted, fspPIdx, fspPolyReps, fspDepth, fspNulls,
                   fspDone, FspOthers>>

\* represent_fsp_con: the switch takes it back to its point of origin; the
\* connections are sorted and con (or NULL) is returned
ReturnFspCon ==
    /\ fspStack # <<>>
    /\ Top.kind = "con" /\ Top.pc = "step"
    /\ ConStepPoly(fspDiagr, Top.p, Top.g) = Top.p_mark
    /\ ConStepGon(fspDiagr, Top.p, Top.g) = 0
    /\ fspStack' = Popped
    /\ UNCHANGED <<fspDiagr, fspStarted, fspPIdx, fspPolyReps, fspDepth, fspNulls,
                   fspDone, FspOthers>>

FspNext ==
    \/ FspCut \/ FspSplit
    \/ SkipPolygon \/ CallMasterPart \/ ReturnDiagram
    \/ CallFspCon \/ InitPartStep \/ ReturnMasterPart \/ ReturnSlavePart
    \/ ConSeen \/ ConPlaceholder \/ ConRecurse \/ ConStep \/ ReturnFspCon

SpecFsp == FspInit /\ [][FspNext]_vars

\* every call that can go on does go on
SpecFspLive == SpecFsp /\ WF_vars(FspNext)

(***************************************************************************)
(* The generic cycle (src/src/cycle.c), with CYCLE_T an integer type.      *)
(* Positions count from 0 as in the C code; array[p + 1] holds position p. *)
(***************************************************************************)
\* COMPARE_TYPE(CYCLE_T) for an integer CYCLE_T
compare_CYCLE_T(left, right) == COMPARE(left, right)

\* the values of CYCLE_T
CycleElems == 0..MaxCycleElem

\* make_cycle(array, length); offset and period are not set, so they hold
\* any value
make_cycle(array, offset, period) ==
    [length |-> Len(array), array |-> array, modified |-> TRUE,
     offset |-> offset, period |-> period]

\* _booth_normalise: the while loop of pass j; the result is k, i and comp
\* as the loop leaves them
RECURSIVE CycleBoothWhile(_, _, _, _, _)
CycleBoothWhile(array, f, k, i, j) ==
    IF i # -1 /\ compare_CYCLE_T(array[(j % Len(array)) + 1],
                                 array[((k + i + 1) % Len(array)) + 1]) # 0
    THEN CycleBoothWhile(array, f,
                    IF compare_CYCLE_T(array[(j % Len(array)) + 1],
                                       array[((k + i + 1) % Len(array)) + 1]) < 0
                    THEN j - i - 1 ELSE k,
                    f[i], j)
    ELSE [k |-> k, i |-> i,
          comp |-> compare_CYCLE_T(array[(j % Len(array)) + 1],
                                   array[((k + i + 1) % Len(array)) + 1])]

\* _booth_normalise: the passes of the for loop from j on.  Of f only f[0]
\* is set before the loop; -2 stands for an entry not yet written.
RECURSIVE CycleBoothLoop(_, _, _, _)
CycleBoothLoop(array, f, k, j) ==
    IF j >= 2 * Len(array) THEN k
    ELSE LET w == CycleBoothWhile(array, f, k, f[j - k - 1], j)
         IN  IF w.i = -1 /\ w.comp # 0
             THEN CycleBoothLoop(array,
                            [f EXCEPT ![j - (IF w.comp < 0 THEN j ELSE w.k)] = -1],
                            IF w.comp < 0 THEN j ELSE w.k, j + 1)
             ELSE CycleBoothLoop(array, [f EXCEPT ![j - w.k] = w.i + 1], w.k, j + 1)

\* _booth_normalise(c)
CycleBoothNormalise(array) ==
    CycleBoothLoop(array, [x \in 0..(2 * Len(array) - 1) |-> IF x = 0 THEN -1 ELSE -2], 0, 1)

\* compare_offset(cycl, offset), called on a cycle that is not modified
RECURSIVE CompareOffsetFrom(_, _, _)
CompareOffsetFrom(array, offset, i) ==
    IF i >= Len(array) THEN 0
    ELSE IF compare_CYCLE_T(array[i + 1], array[((i + offset) % Len(array)) + 1]) # 0
         THEN compare_CYCLE_T(array[i + 1], array[((i + offset) % Len(array)) + 1])
         ELSE CompareOffsetFrom(array, offset, i + 1)

CompareOffset(array, offset) == CompareOffsetFrom(array, offset, 0)

\* _find_period(cycle), from period on
RECURSIVE FindCyclePeriodFrom(_, _)
FindCyclePeriodFrom(array, period) ==
    IF period > Len(array) \div 2 THEN Len(array)
    ELSE IF Len(array) % period # 0 THEN FindCyclePeriodFrom(array, period + 1)
    ELSE IF CompareOffset(array, period) = 0 THEN period
    ELSE FindCyclePeriodFrom(array, period + 1)

FindCyclePeriod(array) == FindCyclePeriodFrom(array, 1)

\* normalise(cycle)
NormaliseCycle(c) ==
    IF ~c.modified THEN c
    ELSE [c EXCEPT !.modified = FALSE,
                   !.offset = CycleBoothNormalise(c.array),
                   !.period = FindCyclePeriod(c.array)]

\* the index set_element and set_periodic write to
SetIndex(c, index, LLR) ==
    IF LLR THEN (index + NormaliseCycle(c).offset) % c.length ELSE index

\* set_element and set_periodic up to the assignment array[index] = elem;
\* modified is left as it is
ElementSet(c, elem, index, LLR) ==
    [(IF LLR THEN NormaliseCycle(c) ELSE c)
        EXCEPT !.array[SetIndex(c, index, LLR) + 1] = elem]

\* set_periodic: the positions index + i its loop writes to
PeriodicPositions(c, index) ==
    {index + i : i \in {m * c.period : m \in 1..c.length} \cap 1..(c.length - 1)}

\* compare_cycle(c_1, c_2), both normalised: the loop from i on
RECURSIVE CompareCycleFrom(_, _, _)
CompareCycleFrom(c_1, c_2, i) ==
    IF i >= (IF c_1.length < c_2.length THEN c_1.length ELSE c_2.length) THEN c_1.length - c_2.length
    ELSE IF compare_CYCLE_T(c_1.array[((i + c_1.offset) % c_1.length) + 1],
                            c_2.array[((i + c_2.offset) % c_2.length) + 1]) # 0
         THEN compare_CYCLE_T(c_1.array[((i + c_1.offset) % c_1.length) + 1],
                              c_2.array[((i + c_2.offset) % c_2.length) + 1])
         ELSE CompareCycleFrom(c_1, c_2, i + 1)

\* the arrays a cycle is made of
CycleArrays == UNION {[1..n -> CycleElems] : n \in 1..MaxCycleLength}

CycleInit ==
    /\ GenIdle /\ PermIdle /\ CycIdle /\ CmpIdle /\ SymIdle /\ RepIdle /\ SrtIdle /\ VfsIdle /\ PropIdle /\ BitsIdle /\ GenerateIdle /\ DiagramIdle /\ WhenceIdle /\ FspIdle
    /\ \E array \in CycleArrays, offset \in 0..MaxCycleLength, period \in 0..MaxCycleLength :
          cycle = make_cycle(array, offset, period)
    /\ cycleRes = [call |-> "none"]
    /\ cycleOob = FALSE

CycleOthers ==
    UNCHANGED <<genvars, permvars, cycvars, cmpvars, symvars, repvars, srtvars, vfsvars, propvars, bitsvars, dgvars, diagvars, whvars, fspvars>>

\* get_offset(cycle)
GetOffset ==
    /\ cycle' = NormaliseCycle(cycle)
    /\ cycleRes' = [call |-> "get_offset", val |-> cycle'.offset]
    /\ cycleOob' = FALSE
    /\ CycleOthers

\* get_period(cycle)
GetPeriod ==
    /\ cycle' = NormaliseCycle(cycle)
    /\ cycleRes' = [call |-> "get_period", val |-> cycle'.period]
    /\ cycleOob' = FALSE
    /\ CycleOthers

\* get_element(cycl, index, LLR): array[index + offset] is read without a
\* reduction modulo length; a read past the array returns any value
GetElement(index, LLR) ==
    /\ index < cycle.length
    /\ cycle' = IF LLR THEN NormaliseCycle(cycle) ELSE cycle
    /\ cycleOob' = (index + (IF LLR THEN cycle'.offset ELSE 0) >= cycle.length)
    /\ \E val \in CycleElems :
          /\ ~cycleOob' => val = cycle.array[index + (IF LLR THEN cycle'.offset ELSE 0) + 1]
          /\ cycleRes' = [call |-> "get_element", val |-> val, LLR |-> LLR]
    /\ CycleOthers

\* set_element(cycle, elem, index, LLR)
SetElement(elem, index, LLR) ==
    /\ index < cycle.length
    /\ cycle' = ElementSet(cycle, elem, index, LLR)
    /\ cycleRes' = [call |-> "set_element", val |-> cycle.array[SetIndex(cycle, index, LLR) + 1]]
    /\ cycleOob' = FALSE
    /\ CycleOthers

\* set_periodic(cycle, elem, index, LLR): get_period normalises the cycle
\* after array[index] = elem, and the loop writes array[index + i] without a
\* reduction modulo length; a write past the array leaves the array alone
SetPeriodic(elem, index, LLR) ==
    /\ index < cycle.length
    /\ LET c == NormaliseCycle(ElementSet(cycle, elem, index, LLR))
           at == SetIndex(cycle, index, LLR)
       IN  /\ cycle' = [c EXCEPT !.array = [p \in 1..c.length |->
                                   IF p - 1 \in PeriodicPositions(c, at) THEN elem
                                   ELSE c.array[p]]]
           /\ cycleOob' = (\E p \in PeriodicPositions(c, at) : p >= c.length)
    /\ cycleRes' = [call |-> "set_periodic", val |-> cycle.array[SetIndex(cycle, index, LLR) + 1]]
    /\ CycleOthers

\* compare_cycle(cycl, c_2) with c_2 a cycle just made of array_2
CompareCycle(array_2) ==
    /\ cycle' = NormaliseCycle(cycle)
    /\ cycleRes' = [call |-> "compare_cycle",
                   val |-> CompareCycleFrom(cycle', NormaliseCycle(make_cycle(array_2, 0, 0)), 0)]
    /\ cycleOob' = FALSE
    /\ CycleOthers

CycleNext ==
    \/ GetOffset
    \/ GetPeriod
    \/ \E index \in 0..(MaxCycleLength - 1), LLR \in BOOLEAN : GetElement(index, LLR)
    \/ \E elem \in CycleElems, index \in 0..(MaxCycleLength - 1), LLR \in BOOLEAN :
          SetElement(elem, index, LLR)
    \/ \E elem \in CycleElems, index \in 0..(MaxCycleLength - 1), LLR \in BOOLEAN :
          SetPeriodic(elem, index, LLR)
    \/ \E array_2 \in CycleArrays : CompareCycle(array_2)

SpecCycle == CycleInit /\ [][CycleNext]_vars

(***************************************************************************)
(* Properties of the group generators.                                     *)
(***************************************************************************)
\* the maximal runs of equal entries of R, as pairs <<first, last>>
EqualRuns(R) ==
    {run \in (1..Len(R)) \X (1..Len(R)) :
        /\ run[1] <= run[2]
        /\ \A i \in run[1]..run[2] : R[i] = R[run[1]]
        /\ run[1] = 1 \/ R[run[1] - 1] # R[run[1]]
        /\ run[2] = Len(R) \/ R[run[2] + 1] # R[run[2]]}

RECURSIVE RunFactorials(_)
RunFactorials(runs) ==
    IF runs = {} THEN 1
    ELSE LET run == CHOOSE r \in runs : TRUE
         IN Fact(run[2] - run[1] + 1) * RunFactorials(runs \ {run})

\* the order of the group Z_R
GroupOrder(R) == SeqProd(R) * RunFactorials(EqualRuns(R))

\* a Zn_Generator(n) after k increments
RECURSIVE ZnAfter(_, _)
ZnAfter(n, k) == IF k = 0 THEN ZnNew(n) ELSE ZnInc(ZnAfter(n, k - 1))

\* the first traversal is under way / has just ended with an increment that set done
FirstPass == gen.kind # "none" /\ passes = 0
FirstDone == gen.kind # "none" /\ passes = 1 /\ gen.g.done

\* C1: from a fresh ZR_Generator(R), R ascending, the permutations observed
\* until done is first set (the identity and the permutation after every
\* increment that leaves done false) are pairwise distinct and number
\* exactly (product of the trace lengths) x (product of k! over the maximal
\* runs of k equal lengths); for R = {n} they are the n permutations a
\* Zn_Generator(n) visits, and done is set by exactly the n-th increment.
C1_ZRVisitsGroupOnce ==
    gen.kind = "ZR" =>
        /\ FirstPass =>
              /\ ~gen.g.done
              /\ nvisited = nincr + 1
              /\ Cardinality(visited) = nvisited
              /\ nincr < GroupOrder(genR)
        /\ FirstDone =>
              /\ nincr = GroupOrder(genR)
              /\ nvisited = GroupOrder(genR)
              /\ Cardinality(visited) = nvisited
              /\ Len(genR) = 1 =>
                    /\ visited = {ZnAfter(genR[1], k).perm : k \in 0..(genR[1] - 1)}
                    /\ \A k \in 0..(genR[1] - 1) : ~ZnAfter(genR[1], k).done
                    /\ ZnAfter(genR[1], genR[1]).done

\* a ZR_Generator with cyclings and block swaps has completed its first traversal
C1_Witness ==
    /\ gen.kind = "ZR"
    /\ FirstDone
    /\ Len(gen.g.cycl) >= 2
    /\ Len(gen.g.swap) >= 1
    /\ nvisited >= 8

\* C2: from a fresh Sn_Generator(n), the identity and the permutations after
\* each of the next n!-1 increments are pairwise distinct, none of these
\* increments sets done, and the n!-th increment sets done (having visited
\* every element of S_n exactly once).
C2_SnVisitsAllOnce ==
    gen.kind = "Sn" =>
        /\ FirstPass =>
              /\ ~gen.g.done
              /\ nvisited = nincr + 1
              /\ Cardinality(visited) = nvisited
              /\ nincr <= Fact(gen.g.n) - 1
        /\ FirstDone =>
              /\ nincr = Fact(gen.g.n)
              /\ nvisited = Fact(gen.g.n)
              /\ visited = AllPerms(gen.g.n)

\* an Sn_Generator of at least three elements has completed its first traversal
C2_Witness ==
    /\ gen.kind = "Sn"
    /\ gen.g.n >= 3
    /\ FirstDone
    /\ nincr = Fact(gen.g.n)

\* a generator's fields with the done flags lowered and the scratch cursor
\* stack_idx (reset by every increment) rewound
SnAtRest(g) == [g EXCEPT !.done = FALSE, !.stack_idx = 0]
ZnAtRest(g) == [g EXCEPT !.done = FALSE]
ZRAtRest(g) ==
    [g EXCEPT !.done = FALSE,
              !.cycl = [i \in 1..Len(g.cycl) |->
                          [g.cycl[i] EXCEPT !.gen = ZnAtRest(g.cycl[i].gen)]],
              !.swap = [i \in 1..Len(g.swap) |->
                          [g.swap[i] EXCEPT !.gen = SnAtRest(g.swap[i].gen)]]]

\* C3: for every generator type, when an increment sets done the current
\* permutation is the identity and the whole internal state (counters,
\* sub-generators and their permutations) equals that of a freshly
\* constructed generator, the done flag apart.
C3_DoneRestoresFreshState ==
    (gen.kind # "none" /\ gen.g.done) =>
        /\ IsIdentity(gen.g.perm)
        /\ gen.kind = "Zn" => ZnAtRest(gen.g) = ZnNew(gen.g.n)
        /\ gen.kind = "Sn" => SnAtRest(gen.g) = SnNew(gen.g.n)
        /\ gen.kind = "ZR" => ZRAtRest(gen.g) = ZRNew(genR)

(***************************************************************************)
(* Properties of Permutation.                                              *)
(***************************************************************************)
\* C4: for every permutation p, p^k as computed by operator^ is the identity
\* for k = p.order() and is not the identity for any 1 <= k < p.order().
C4_PowerIdentityAtOrder ==
    ppow > 0 => (IsIdentity(pres) <=> ppow = Order(pperm))

(***************************************************************************)
(* Normalisation of a cycrep.                                              *)
(***************************************************************************)
\* the rotations of the gon array starting at r1 and at r2, compared over
\* their whole length at one level
RotationCompare(rep, r1, r2, level) ==
    CompareSelf([rep EXCEPT !.offset = 0], r1, r2, rep.length, level, FALSE)

\* no rotation is smaller than the one starting at r, level by level
MinimalRotation(rep, r) ==
    \A q \in 0..(rep.length - 1) :
        LET top == RotationCompare(rep, r, q, TOP_LEVEL)
            ord == RotationCompare(rep, r, q, ORD_LEVEL)
            fsp == RotationCompare(rep, r, q, FSP_LEVEL)
        IN /\ top <= 0
           /\ top = 0 => ord <= 0
           /\ (top = 0 /\ ord = 0) => fsp <= 0

FullyNormalised == partStages = <<TOP_LEVEL, ORD_LEVEL, FSP_LEVEL>>

\* C5: once a fresh cycrep has been normalised at TOP_LEVEL, ORD_LEVEL and
\* FSP_LEVEL in turn, the rotation of its gon array that starts at offset is
\* minimal: no rotation is smaller at TOP level, none of those equal to it
\* at TOP level is smaller at ORD level, and none of those equal at both is
\* smaller at FSP level.
C5_OffsetIsMinimalRotation ==
    FullyNormalised => MinimalRotation(part, part.offset % part.length)

NormalisedTwice ==
    /\ Len(partStages) >= 2
    /\ partStages[Len(partStages)] = partStages[Len(partStages) - 1]

\* C6: a second normalise_cycrep at the level of the call before it changes
\* neither offset nor period.
C6_NormaliseIdempotent ==
    NormalisedTwice =>
        /\ part.offset = partPrev.offset
        /\ part.period = partPrev.period

(***************************************************************************)
(* The orders compare_cycrep and compare_comprep define.                   *)
(***************************************************************************)
Sign(v) == COMPARE(v, 0)

CycrepsCompared == cmpRes.called

\* C7: at each level and for normalised cycreps a, b, c, compare_cycrep(a, a)
\* is 0, compare_cycrep(a, b) and compare_cycrep(b, a) have opposite signs
\* or are both 0, and compare_cycrep(a, b) <= 0 with compare_cycrep(b, c) <= 0
\* implies compare_cycrep(a, c) <= 0.
C7_CompareCycrepIsOrder ==
    (/\ CycrepsCompared
     /\ cmpA # NullCycrep /\ cmpB # NullCycrep /\ cmpC # NullCycrep) =>
        /\ cmpRes.aa.val = 0
        /\ Sign(cmpRes.ab.val) = -Sign(cmpRes.ba.val)
        /\ (cmpRes.ab.val <= 0 /\ cmpRes.bc.val <= 0) => cmpRes.ac.val <= 0

\* C8, as stated: compare_cycrep orders a null cycrep before every non-null
\* one, and two null cycreps as equal.
C8_NullOrdersFirst ==
    CycrepsCompared =>
        /\ (cmpA = NullCycrep /\ cmpB # NullCycrep) =>
              (cmpRes.ab.val < 0 /\ cmpRes.ba.val > 0)
        /\ (cmpA = NullCycrep /\ cmpB = NullCycrep) => cmpRes.ab.val = 0

\* C8, as the code has it: compare_cycrep orders a null cycrep after every
\* non-null one, whatever the level: compare_cycrep(NULL, b) > 0 and
\* compare_cycrep(b, NULL) < 0 for non-null b, and compare_cycrep(NULL, NULL)
\* is 0.
C8_NullOrdersLast ==
    CycrepsCompared =>
        /\ (cmpA = NullCycrep /\ cmpB # NullCycrep) =>
              /\ cmpRes.ab.val > 0 /\ ~cmpRes.ab.oob
              /\ cmpRes.ba.val < 0 /\ ~cmpRes.ba.oob
        /\ (cmpA = NullCycrep /\ cmpB = NullCycrep) =>
              cmpRes.ab.val = 0 /\ ~cmpRes.ab.oob

C8_Witness ==
    /\ CycrepsCompared
    /\ cmpA = NullCycrep
    /\ cmpB # NullCycrep
    /\ cmpB.length = MaxCmpLen
    /\ cmpLevel = ALL_LEVELS

\* C9: for two non-null compreps with different numbers of parts,
\* compare_comprep orders the one with fewer parts first and reads no entry
\* beyond either comprep's part count.
C9_FewerPartsFirst ==
    (/\ conRes.called
     /\ conA # 0 /\ conB # 0
     /\ Heap[conA].nreps # Heap[conB].nreps) =>
        /\ Sign(conRes.ab.val) = COMPARE(Heap[conA].nreps, Heap[conB].nreps)
        /\ Sign(conRes.ba.val) = COMPARE(Heap[conB].nreps, Heap[conA].nreps)
        /\ ~conRes.ab.oob
        /\ ~conRes.ba.oob

(***************************************************************************)
(* The symmetry factor.                                                    *)
(***************************************************************************)
\* the parts in which every gon carries a flavour index contribute
\* length/period, the others nothing
RotationalFactors(crep) ==
    [i \in 1..crep.nreps |->
        IF \A g \in 0..(crep.reps[i - 1].length - 1) :
              CarriesFlavidx(crep.reps[i - 1].array[g])
        THEN crep.reps[i - 1].length \div crep.reps[i - 1].period
        ELSE 1]

EqReps(crep) == [i \in 1..crep.nreps |-> crep.eq_reps[i - 1]]

\* C10: for a comprep whose parts are sorted and ranked, get_symmetry
\* returns the product of length/period over the parts in which every gon
\* carries a flavour index, times k! for each maximal run of k consecutive
\* parts of equal eq_reps.
C10_SymmetryIsRotationsTimesRuns ==
    symRes # 0 =>
        symRes = SeqProd(RotationalFactors(symCrep))
                    * RunFactorials(EqualRuns(EqReps(symCrep)))

\* three parts: two equal ones of rotational symmetry 2, and one with a
\* singlet whose period is below its length
C10_Witness ==
    /\ symRes # 0
    /\ symCrep.nreps = 3
    /\ \E run \in EqualRuns(EqReps(symCrep)) :
          /\ run[2] = run[1] + 1
          /\ RotationalFactors(symCrep)[run[1]] = 2
    /\ \E i \in 0..2 :
          /\ symCrep.reps[i].n_flavidx # symCrep.reps[i].length
          /\ symCrep.reps[i].period < symCrep.reps[i].length

\* C11: the O(p^2) four-point contact diagram (one polygon of order 0 with
\* four external legs) has symmetry factor 4: get_symmetry, applied to what
\* represent_diagram returns for it, returns 4.
C11_FourPointContactSymmetry ==
    (diagr = MakeContactDiagram(4, 0) /\ repSym # 0) => repSym = 4

C11_Witness ==
    /\ diagr = MakeContactDiagram(4, 0)
    /\ repCrep # NotCalled
    /\ repCrep.nreps = 1
    /\ repCrep.reps[0].length = 4
    /\ repCrep.reps[0].period = 1
    /\ repSym = 4

\* what compare_cycrep(reps[i], reps[j], ALL_LEVELS) returns on two parts of
\* the sorted comprep, where it reads in bounds
PartsCompare(i, j) ==
    {o.val : o \in {o \in CompareCycrepOut(srtCrep.reps[i], srtCrep.reps[j],
                                            ALL_LEVELS) : ~o.oob}}

\* C12: after represent_diagram has sorted the parts, two parts have the same
\* rank in eq_reps exactly if compare_cycrep finds them equal at ALL_LEVELS,
\* the first rank is 0, and the rank grows by one from a part to an unequal
\* next part and not at all to an equal one.
C12_RanksMatchEquality ==
    (srtSorted /\ ~srtOob) =>
        /\ \A i, j \in 0..(srtCrep.nreps - 1) : \A c \in PartsCompare(i, j) :
              (srtCrep.eq_reps[i] = srtCrep.eq_reps[j]) <=> (c = 0)
        /\ srtCrep.eq_reps[0] = 0
        /\ \A i \in 1..(srtCrep.nreps - 1) : \A c \in PartsCompare(i - 1, i) :
              srtCrep.eq_reps[i] =
                  srtCrep.eq_reps[i - 1] + (IF c # 0 THEN 1 ELSE 0)

(***************************************************************************)
(* The flavour splits of a vertex.                                         *)
(***************************************************************************)
\* the number of traces of odd size
OddTraces(split) == Cardinality({k \in 1..Len(split) : split[k] % 2 # 0})

\* the cost rule: every trace beyond the first costs order 2, and so does
\* every pair of traces of odd size
SplitCost(split) == 2 * (Len(split) - 1) + 2 * (OddTraces(split) \div 2)

\* C16: every flavour split valid_flav_splits(order, n_legs) returns, for an
\* even order >= 2 and n_legs >= 4, costs at most order - 2, has entries of
\* at least 2 only, and sums to n_legs.
C16_SplitsRespectCost ==
    vfsSplits # <<>> =>
        \A k \in 1..Len(vfsSplits) :
            /\ SplitCost(vfsSplits[k]) <= vfsOrder - 2
            /\ \A e \in 1..Len(vfsSplits[k]) : vfsSplits[k][e] >= 2
            /\ SeqSum(vfsSplits[k]) = vfsLegs

\* the ascending sequences of integers >= smallest that sum to n
RECURSIVE Partitions(_, _)
Partitions(n, smallest) ==
    IF n = 0 THEN {<<>>}
    ELSE UNION {{<<e>> \o p : p \in Partitions(n - e, e)} : e \in smallest..n}

\* the valid flavour splits, as ascending sequences
ValidSplits(order, n_legs) ==
    {p \in Partitions(n_legs, 2) : SplitCost(p) <= order - 2}

\* C17: every valid flavour split (trace sizes >= 2 that sum to n_legs, of
\* cost at most order - 2) is returned by valid_flav_splits(order, n_legs),
\* and exactly once.
C17_AllValidSplitsOnce ==
    vfsSplits # <<>> =>
        \A p \in ValidSplits(vfsOrder, vfsLegs) :
            Cardinality({k \in 1..Len(vfsSplits) :
                            SortAscending(vfsSplits[k]) = p}) = 1

(***************************************************************************)
(* C18: normalisation is idempotent: for every n_mom >= 2 and every        *)
(* momentum mask over n_mom legs, a propagator normalised twice (or more)  *)
(* equals the propagator normalised once.                                  *)
(* Violated for odd n_mom: with n_mom = 3 the mask 100 has n_mom/2 = 1     *)
(* bits and holds the last momentum, so it becomes 011, which has more     *)
(* than n_mom/2 bits and becomes 100 again.                                *)
(***************************************************************************)
C18_PropNormaliseIdempotent ==
    propCalls >= 2 => prop = propOnce

(***************************************************************************)
(* C19: for any block_len >= 1 and any offset, permute_bits returns the    *)
(* number in which, for every i < size(), the whole block of block_len     *)
(* bits at block position offset + i of the input stands unchanged at      *)
(* block position offset + map[i], and the bits below the permuted range   *)
(* (the first offset blocks) are unchanged.                                *)
(* Violated for block_len = 2: the mask is 1 << (block_len - 1), so only   *)
(* the top bit of each block is carried over, and only offset bits, not    *)
(* offset blocks, are kept below the range.                                *)
(***************************************************************************)
Block(x, pos, block_len) == ShiftRight(x, pos * block_len) % 2 ^ block_len

C19_PermuteBitsMovesBlocks ==
    pbRes # -1 =>
        /\ \A i \in DOMAIN pbMap :
              Block(pbRes, pbOffset + pbMap[i], pbBlock) = Block(pbBits, pbOffset + i, pbBlock)
        /\ pbRes % 2 ^ (pbOffset * pbBlock) = pbBits % 2 ^ (pbOffset * pbBlock)

(***************************************************************************)
(* C20: parity() returns an odd integer for an odd permutation (a          *)
(* composition of an odd number of element swaps) and an even integer for  *)
(* an even one.  A permutation of size n with c cycles is a composition of *)
(* n - c swaps and of no set of swaps of the other parity.                 *)
(* Violated for the identity of size 1: its one cycle has odd length, and  *)
(* parity() counts the cycles of odd length.                               *)
(***************************************************************************)
SwapsOf(map) == Size(map) - Len(CycleType(map))

C20_ParityIsParityOfSwaps ==
    pbParity # -1 => pbParity % 2 = SwapsOf(pbMap) % 2

(***************************************************************************)
(* C13: Diagram::generate(2, 6, true) with traceless generators returns    *)
(* exactly 1 diagram.                                                      *)
(* Violated: the list has two diagrams.  As stated below, it holds the     *)
(* six-leg contact vertex and the diagram extend makes of the four-leg     *)
(* contact vertex by attaching a second four-leg vertex: two vertices      *)
(* joined by one propagator.  Both have flavour split {6}.                 *)
(***************************************************************************)
GeneratedTwoSix == dgDone /\ dgOrder = 2 /\ dgLegs = 6 /\ dgSinglets /\ dgTraceless

C13_OneDiagram == GeneratedTwoSix => Len(dgReturned) = 1

\* the root vertex of a diagram carries every external leg itself
IsContact(d) ==
    \A t \in 1..Len(d.root.traces) :
        \A l \in 1..Len(d.root.traces[t].legs) : d.root.traces[t].legs[l].is_leaf

\* the number of vertices one below the root
InnerVertices(d) ==
    Cardinality({<<t, l>> \in (1..Len(d.root.traces)) \X (1..d.n_legs) :
                    /\ l <= Len(d.root.traces[t].legs)
                    /\ ~d.root.traces[t].legs[l].is_leaf})

\* C13, as the code has it: generate(2, 6, true) returns exactly 2 diagrams of
\* flavour split {6}, the contact vertex and one diagram of two four-leg
\* vertices joined by a propagator.
C13_ContactAndOnePropagator ==
    GeneratedTwoSix =>
        /\ Len(dgReturned) = 2
        /\ \A k \in 1..2 : dgReturned[k].flav_split = <<6>> /\ dgReturned[k].order = 2
        /\ \E k \in 1..2 : IsContact(dgReturned[k])
        /\ \E k \in 1..2 :
              /\ InnerVertices(dgReturned[k]) = 1
              /\ \A t \in 1..Len(dgReturned[k].root.traces) :
                    \A l \in 1..Len(dgReturned[k].root.traces[t].legs) :
                        \/ dgReturned[k].root.traces[t].legs[l].is_leaf
                        \/ IsContact([root |-> dgReturned[k].root.traces[t].legs[l]])

C13_Witness == GeneratedTwoSix /\ Len(dgReturned) > 0

(***************************************************************************)
(* C14: with traceless_generators, no diagram in the list the outermost    *)
(* generate call returns has a flavour split containing a 1; the lists the *)
(* recursive calls return keep every such diagram of their diagrs.         *)
(***************************************************************************)
HasOne(flav_split) == \E i \in 1..Len(flav_split) : flav_split[i] = 1

C14_ZeroDiagramsOnlyLeaveTheResult ==
    /\ (dgDone /\ dgTraceless) =>
            \A k \in 1..Len(dgReturned) : ~HasOne(dgReturned[k].flav_split)
    /\ \A c \in DOMAIN dgCalls :
            \A k \in 1..Len(dgCalls[c].diagrs) :
                HasOne(dgCalls[c].diagrs[k].flav_split) =>
                    \E j \in 1..Len(dgCalls[c].returned) :
                        dgCalls[c].returned[j] = dgCalls[c].diagrs[k]

C14_Witness ==
    /\ dgDone /\ dgTraceless
    /\ \E k \in 1..Len(dgDiagrs) : HasOne(dgDiagrs[k].flav_split)
    /\ \E c \in DOMAIN dgCalls :
            \E j \in 1..Len(dgCalls[c].returned) : HasOne(dgCalls[c].returned[j].flav_split)

(***************************************************************************)
(* C15: for every Diagram the constructor makes and every Diagram a        *)
(* sequence of extend steps (each attaching a vertex) makes of it,         *)
(* flav_split is sorted in ascending order and its entries sum to n_legs,  *)
(* which is the number of leaves of the tree.                              *)
(***************************************************************************)
\* the number of leaves of the tree below and including node
RECURSIVE Leaves(_)
Leaves(node) ==
    IF node.is_leaf THEN 1
    ELSE SeqSum([t \in 1..Len(node.traces) |->
                    SeqSum([l \in 1..Len(node.traces[t].legs) |->
                                Leaves(node.traces[t].legs[l])])])

C15_FlavSplitSortedAndSumsToLegs ==
    /\ \A i \in 1..(Len(dDiagram.flav_split) - 1) :
            dDiagram.flav_split[i] <= dDiagram.flav_split[i + 1]
    /\ SeqSum(dDiagram.flav_split) = dDiagram.n_legs
    /\ dDiagram.n_legs = Leaves(dDiagram.root)

C15_Witness ==
    /\ dSteps = 2
    /\ Len(dDiagram.flav_split) >= 3
    /\ \E i \in 1..(Len(dDiagram.flav_split) - 1) :
            dDiagram.flav_split[i] < dDiagram.flav_split[i + 1]

(***************************************************************************)
(* C21: info_sort is stable: items that compare equal stand in the sorted  *)
(* list in their original order, so whence increases strictly within every *)
(* run of equal items.                                                     *)
(* Violated for four equal items: whence is 0, 2, 1, 3.  When the heads of *)
(* the two halves compare equal, _merge writes the head of the second half *)
(* right behind the head of the first, ahead of the equal items left in    *)
(* the first half.                                                         *)
(***************************************************************************)
C21_InfoSortStable ==
    whSorted # <<>> =>
        \A k \in DOMAIN whSorted :
            (k > 0 /\ whSorted[k - 1] = whSorted[k]) => whWhence[k - 1] < whWhence[k]

(***************************************************************************)
(* C22: for a cycrep normalised at the coarser levels, _find_period(rep,   *)
(* level) returns the smallest d dividing length for which the gons at     *)
(* offset + i and offset + i + d compare equal at that level for every i   *)
(* in 0..length-1, and length when no smaller d does.                      *)
(* Violated at ORD_LEVEL for three single legs of orders 2, 2, 4: the      *)
(* period found at TOP_LEVEL is 1, so only one gon is compared with its    *)
(* neighbour and period 1 is returned.                                     *)
(***************************************************************************)
\* the stages so far are normalise_cycrep at TOP_LEVEL, ORD_LEVEL, FSP_LEVEL
\* in turn, each level once
StagedNormalisation ==
    /\ partStages # <<>>
    /\ Len(partStages) <= 3
    /\ partStages = SubSeq(<<TOP_LEVEL, ORD_LEVEL, FSP_LEVEL>>, 1, Len(partStages))

\* the gon array of rep equals its rotation by d at the level, all along
RotationByIsEqual(rep, d, level) ==
    CompareSelf(rep, 0, d, rep.length, level, TRUE) = 0

\* the smallest d dividing length by which the rotation changes nothing
SmallestPeriod(rep, level) ==
    CHOOSE d \in 1..rep.length :
        /\ rep.length % d = 0 /\ RotationByIsEqual(rep, d, level)
        /\ \A e \in 1..(d - 1) :
              ~(rep.length % e = 0 /\ RotationByIsEqual(rep, e, level))

C22_FindPeriodIsSmallestPeriod ==
    StagedNormalisation =>
        part.period = SmallestPeriod(part, partStages[Len(partStages)])

(***************************************************************************)
(* C23: after every ZR_Generator increment that does not set done, however *)
(* many increments went before, perm is the composition of the current     *)
(* permutations of all sub-generators, each applied at its offset with its *)
(* block size.  (The cyclings act inside the traces and the swaps on whole *)
(* traces; the formula accepts the composition in either order.)           *)
(* Violated in the second traversal of ZR_Generator({1, 1}), and in the    *)
(* first of ZR_Generator({1, 1, 2, 2}): a swap sub-generator that wraps    *)
(* around keeps the last permutation of Heap's algorithm, which is not the *)
(* identity, while its permutation has been taken out of perm.             *)
(***************************************************************************)
\* the current permutations of the cyclings from entry i on, applied to arr
RECURSIVE CyclingsApplied(_, _, _)
CyclingsApplied(cycl, i, arr) ==
    IF i > Len(cycl) THEN arr
    ELSE CyclingsApplied(cycl, i + 1, Permute(cycl[i].gen.perm, arr, cycl[i].offs, 1))

\* the current permutations of the swaps from entry i on, applied to arr
RECURSIVE SwapsApplied(_, _, _)
SwapsApplied(swap, i, arr) ==
    IF i > Len(swap) THEN arr
    ELSE SwapsApplied(swap, i + 1,
                      Permute(swap[i].gen.perm, arr, swap[i].first, swap[i].size))

SubProducts(g) ==
    {CyclingsApplied(g.cycl, 1, SwapsApplied(g.swap, 1, Identity(Size(g.perm)))),
     SwapsApplied(g.swap, 1, CyclingsApplied(g.cycl, 1, Identity(Size(g.perm))))}

C23_PermIsProductOfSubPermutations ==
    (gen.kind = "ZR" /\ nincr > 0 /\ ~gen.g.done) => gen.g.perm \in SubProducts(gen.g)

(***************************************************************************)
(* C24: after represent_diagram has sorted the parts, comparing two        *)
(* adjacent parts reps[i], reps[i+1] at TOP_LEVEL, then at ORD_LEVEL, then *)
(* at FSP_LEVEL, the first result that is not 0 deciding, never ranks      *)
(* reps[i] above reps[i+1].                                                *)
(* Violated: _compare_rep compares at ALL_LEVELS, where compare_cycrep     *)
(* goes through len, ord and con of one line before it looks at the next   *)
(* line, so that an order that differs early decides before a topology     *)
(* that differs late.                                                      *)
(***************************************************************************)
\* compare_cycrep at TOP_LEVEL, ORD_LEVEL and FSP_LEVEL in turn
LevelByLevelOut(rep_1, rep_2) ==
    OrElse(CompareCycrepOut(rep_1, rep_2, TOP_LEVEL),
           OrElse(CompareCycrepOut(rep_1, rep_2, ORD_LEVEL),
                  CompareCycrepOut(rep_1, rep_2, FSP_LEVEL)))

C24_SortedLevelByLevel ==
    (srtSorted /\ ~srtOob) =>
        \A i \in 0..(srtCrep.nreps - 2) :
            \A o \in LevelByLevelOut(srtCrep.reps[i], srtCrep.reps[i + 1]) :
                ~o.oob => o.val <= 0

(***************************************************************************)
(* C25: when a part of length >= 1 is normalised at TOP_LEVEL, then at     *)
(* ORD_LEVEL, then at FSP_LEVEL, as represent_part does, then after each   *)
(* stage 1 <= period <= length and period divides length; the period is    *)
(* never 0, so that the fatal exit of represent_part is not taken.         *)
(***************************************************************************)
C25_PeriodDividesLength ==
    (StagedNormalisation /\ part.length >= 1) =>
        /\ part.period >= 1
        /\ part.period <= part.length
        /\ part.length % part.period = 0

\* all three stages are done, and the period is neither 1 nor the length
C25_Witness ==
    /\ partStages = <<TOP_LEVEL, ORD_LEVEL, FSP_LEVEL>>
    /\ part.period > 1
    /\ part.period < part.length

(***************************************************************************)
(* C26: represent_diagram terminates on every diagram, with or without     *)
(* flavour splits.  represent_fsp_con never calls represent_part for a     *)
(* polygon whose master flag is set (it stores a NULL placeholder); every  *)
(* call of represent_part that has represented its first connection has    *)
(* set a master flag that was not set when it was called; and never more   *)
(* calls of represent_part are in progress than the diagram has polygons.  *)
(***************************************************************************)
RecursionBounded ==
    /\ \A k \in PartFramesIn(fspStack) :
          /\ fspStack[k].p_mark \notin fspStack[k].entry
          /\ (k < Len(fspStack) \/ fspStack[k].pc # "con") =>
                /\ fspStack[k].entry \subseteq fspStack[k].master
                /\ fspStack[k].entry # fspStack[k].master
    /\ Cardinality(PartFramesIn(fspStack)) <= fspDiagr.npolys
    /\ fspDepth <= fspDiagr.npolys

C26_RepresentDiagramTerminates == []RecursionBounded /\ <>fspDone

\* represent_diagram has returned for a diagram with flavour splits, after
\* storing NULL placeholders and nesting represent_part three deep
C26_Witness ==
    /\ fspDone
    /\ HasFlavourSplit(fspDiagr)
    /\ fspNulls > 0
    /\ fspDepth >= 3

(***************************************************************************)
(* C27: after Diagram::index, on the Diagram the constructor makes and on  *)
(* every Diagram made by attaching vertices, the n_legs leaves carry the   *)
(* momenta 1 << 0, ..., 1 << (n_legs - 1), each once; and the leaves of    *)
(* one flavour trace carry the indices of one contiguous block, the sizes  *)
(* of the blocks being the entries of flav_split.                          *)
(***************************************************************************)
RECURSIVE Flattened(_)
Flattened(seqs) ==
    IF seqs = <<>> THEN <<>> ELSE Head(seqs) \o Flattened(Tail(seqs))

\* the momenta of the leaves below node, in the order of the tree
RECURSIVE LeafMomenta(_)
LeafMomenta(node) ==
    IF node.is_leaf THEN <<node.momenta>>
    ELSE Flattened([t \in 1..Len(node.traces) |->
                      Flattened([l \in 1..Len(node.traces[t].legs) |->
                                    LeafMomenta(node.traces[t].legs[l])])])

\* the momenta of the leaves of the flavour trace that trace t of node is
\* part of, from node downwards: its own leaves, and those of the connected
\* traces of the vertices that hang on it other than by a singlet
RECURSIVE TraceMomenta(_, _)
TraceMomenta(node, t) ==
    Flattened([l \in 1..Len(node.traces[t].legs) |->
                 IF node.traces[t].legs[l].is_leaf
                 THEN <<node.traces[t].legs[l].momenta>>
                 ELSE IF node.traces[t].legs[l].is_singlet THEN <<>>
                 ELSE TraceMomenta(node.traces[t].legs[l],
                                   node.traces[t].legs[l].connect_idx + 1)])

\* the flavour traces that begin at node or below it
RECURSIVE FlavourTracesBelow(_)
FlavourTracesBelow(node) ==
    IF node.is_leaf THEN <<>>
    ELSE SelectSeq([t \in 1..Len(node.traces) |->
                       IF ~node.traces[t].connected \/ node.is_singlet
                       THEN TraceMomenta(node, t) ELSE <<>>],
                   LAMBDA tm : tm # <<>>)
         \o Flattened([t \in 1..Len(node.traces) |->
                Flattened([l \in 1..Len(node.traces[t].legs) |->
                              FlavourTracesBelow(node.traces[t].legs[l])])])

\* the momenta 1 << first, ..., 1 << (first + n - 1)
BlockOfBits(first, n) == {2 ^ k : k \in first..(first + n - 1)}

C27_IndexIsFlavourOrdered ==
    /\ Len(LeafMomenta(dDiagram.root)) = dDiagram.n_legs
    /\ Elements(LeafMomenta(dDiagram.root)) = BlockOfBits(0, dDiagram.n_legs)
    /\ \A tm \in Elements(FlavourTracesBelow(dDiagram.root)) :
          \E first \in 0..(dDiagram.n_legs - 1) :
              Elements(tm) = BlockOfBits(first, Len(tm))
    /\ SortAscending([k \in 1..Len(FlavourTracesBelow(dDiagram.root)) |->
                         Len(FlavourTracesBelow(dDiagram.root)[k])])
          = dDiagram.flav_split

\* two vertices have been attached, one of them by a singlet, and a flavour
\* trace runs over more than one vertex
C27_Witness ==
    /\ dSteps = 2
    /\ dDiagram.singlet_diagram
    /\ Len(dDiagram.flav_split) >= 3
    /\ \E t \in 1..Len(dDiagram.root.traces) :
          \E l \in 1..Len(dDiagram.root.traces[t].legs) :
              /\ ~dDiagram.root.traces[t].legs[l].is_leaf
              /\ ~dDiagram.root.traces[t].legs[l].is_singlet
              /\ Len(TraceMomenta(dDiagram.root, t)) > Len(dDiagram.root.traces[t].legs)

(***************************************************************************)
(* C28: whenever Diagram::extend is called, idx_reps holds exactly index 0 *)
(* and, for every trace i >= 1 longer than trace i-1, the smallest leg     *)
(* index of trace i, which is the sum of flav_split[0..i-1]; and computing *)
(* it reads no position of flav_split outside 0..size-1.  Violated by the  *)
(* first extend of a Diagram with two traces: the increment reads          *)
(* flav_split[2].  From the third trace on the index is too large as well: *)
(* flav_split {2, 2, 4} gives {0, 6} for {0, 4}.                           *)
(***************************************************************************)
\* the sum of flav_split[0..i-1]
RECURSIVE SmallestLegIndex(_, _)
SmallestLegIndex(flav_split, i) ==
    IF i = 0 THEN 0 ELSE SmallestLegIndex(flav_split, i - 1) + flav_split[i]

RepresentativeIndices(flav_split) ==
    {0} \cup {SmallestLegIndex(flav_split, i) :
                 i \in {j \in 1..(Len(flav_split) - 1) : flav_split[j + 1] > flav_split[j]}}

C28_IdxRepsAreSmallestIndices ==
    [][dSteps' = dSteps + 1 =>
          /\ Elements(IdxReps(dDiagram.flav_split, 1, dDiagram.flav_split[1], <<0>>))
                = RepresentativeIndices(dDiagram.flav_split)
          /\ IdxRepsReads(dDiagram.flav_split, 1, {0})
                \subseteq 0..(Len(dDiagram.flav_split) - 1)]_vars

\* the first part alone, on every Diagram that is built
C28_IndicesOnly ==
    Elements(IdxReps(dDiagram.flav_split, 1, dDiagram.flav_split[1], <<0>>))
        = RepresentativeIndices(dDiagram.flav_split)

(***************************************************************************)
(* C29: after any calls of set_element, set_periodic, get_offset,          *)
(* get_period, get_element and compare_cycle on a generic cycle,           *)
(* get_offset returns an offset at which the least rotation of the array   *)
(* as it is now begins, get_period returns its smallest period, and        *)
(* get_element with LLR reads a position inside the array.  Violated:      *)
(* set_element and set_periodic leave modified FALSE, so the offset and    *)
(* period of the array before the change are returned; and get_element     *)
(* reads array[index + offset] past the end.                               *)
(***************************************************************************)
\* the array read from position offset on, round the cycle
RotatedArray(array, offset) ==
    [p \in 1..Len(array) |-> array[((p - 1 + offset) % Len(array)) + 1]]

\* a is lexicographically no larger than b, two arrays of one length
ArrayLeq(a, b) ==
    \/ a = b
    \/ \E p \in 1..Len(a) : a[p] < b[p] /\ \A q \in 1..(p - 1) : a[q] = b[q]

IsLeastRotationOffset(array, offset) ==
    /\ offset \in 0..(Len(array) - 1)
    /\ \A o \in 0..(Len(array) - 1) :
          ArrayLeq(RotatedArray(array, offset), RotatedArray(array, o))

IsSmallestCyclePeriod(array, period) ==
    /\ period \in 1..Len(array)
    /\ RotatedArray(array, period) = array
    /\ \A p \in 1..(period - 1) : RotatedArray(array, p) # array

C29_OffsetAndPeriodAreCurrent ==
    /\ cycleRes.call = "get_offset" => IsLeastRotationOffset(cycle.array, cycleRes.val)
    /\ cycleRes.call = "get_period" => IsSmallestCyclePeriod(cycle.array, cycleRes.val)
    /\ (cycleRes.call = "get_element" /\ cycleRes.LLR) => ~cycleOob

(***************************************************************************)
(* C30: compare_cycrep(a, b, ALL_LEVELS) returns 0 only if a and b have    *)
(* the same length and their gons, read from their offsets, agree in the   *)
(* len, ord and connection of every line; also when neither part has a     *)
(* gon that carries a flavour index.  Violated: with n_flavidx == 0 on     *)
(* both sides 0 is returned before anything is compared.                   *)
(***************************************************************************)
\* the connections are one comprep, or compreps of the same content
SameConnection(con_1, con_2) ==
    \/ con_1 = con_2
    \/ con_1 # 0 /\ con_2 # 0 /\ Heap[con_1] = Heap[con_2]

SameGons(rep_1, rep_2) ==
    /\ (rep_1 = NullCycrep) = (rep_2 = NullCycrep)
    /\ rep_1 # NullCycrep =>
          /\ rep_1.length = rep_2.length
          /\ \A i \in 0..(rep_1.length - 1) :
                /\ ArrOffs(rep_1, i).nlines = ArrOffs(rep_2, i).nlines
                /\ \A j \in 0..(ArrOffs(rep_1, i).nlines - 1) :
                      /\ ArrOffs(rep_1, i).lines[j].len = ArrOffs(rep_2, i).lines[j].len
                      /\ ArrOffs(rep_1, i).lines[j].ord = ArrOffs(rep_2, i).lines[j].ord
                      /\ SameConnection(ArrOffs(rep_1, i).lines[j].con,
                                        ArrOffs(rep_2, i).lines[j].con)

ZeroReturned(out) == out.val = 0 /\ ~out.oob

C30_EqualPartsAreIdentical ==
    (cmpRes.called /\ cmpLevel = ALL_LEVELS) =>
        /\ ZeroReturned(cmpRes.ab) => SameGons(cmpA, cmpB)
        /\ ZeroReturned(cmpRes.ba) => SameGons(cmpB, cmpA)
        /\ ZeroReturned(cmpRes.bc) => SameGons(cmpB, cmpC)
        /\ ZeroReturned(cmpRes.ac) => SameGons(cmpA, cmpC)

\* the same for the parts that have a gon carrying a flavour index
C30_WithFlavourIndices ==
    (/\ cmpRes.called /\ cmpLevel = ALL_LEVELS
     /\ cmpA # NullCycrep /\ cmpB # NullCycrep
     /\ cmpA.n_flavidx > 0 /\ ZeroReturned(cmpRes.ab)) => SameGons(cmpA, cmpB)

====
